---- MODULE Spec2Model ----
(***************************************************************************)
(* Model of src/renderer/src/utils/markdownConverter.ts: the Markdown <->  *)
(* HTML conversion engine (escapeCustomTags, the markdown-it instance `md` *)
(* with its task-list and math plugins, the turndown service with its      *)
(* table / task-list rules, and the two entry points markdownToHtml and    *)
(* htmlToMarkdown).                                                        *)
(*                                                                         *)
(* Text is a sequence of atoms.  An atom is a one-character string ("<",   *)
(* "&", " ", ...) or a word of letters that the inputs never split ("foo", *)
(* "amp", "abcd").  Indices into a text are 0-based as in the source; a    *)
(* 0-based index i denotes element i + 1 of the sequence.                  *)
(***************************************************************************)
EXTENDS Integers, Sequences, FiniteSets, TLC

VARIABLES
    fn,          \* the entry point being executed
    arg,         \* its argument: [type, val], val the string's atoms
    pc,          \* position inside the entry point
    html,        \* escapeCustomTags: `html`; markdownToHtml: `html`
    events,      \* htmlparser2 callbacks still to be delivered
    result,      \* escapeCustomTags: `result`
    currentPos,  \* escapeCustomTags: `currentPos`
    processedPositions, \* escapeCustomTags: `processedPositions`
    mid,         \* turndownResult / processedMarkdown of the running call
    out,         \* the value the call returned (<<>> until it returns)
    threw,       \* TRUE when a step of the call threw
    trail,       \* the first argument, then what each finished call returned
    plan,        \* the calls still to be made on the value returned
    options,     \* taskListPlugin: the options that md.use passed
    state,       \* md: the state of the last parse, [tokens]
    inside_task_list \* taskListPlugin: `inside_task_list` of the last run

\* what the module-level instance md holds
mdVars == <<options, state, inside_task_list>>

vars == <<fn, arg, pc, html, events, result, currentPos, processedPositions,
          mid, out, threw, trail, plan, options, state, inside_task_list>>

---------------------------------------------------------------------------
(* Strings *)

\* F applied to v: a value that F uses several times is named once
With(v, F(_)) == IF v = v THEN F(v) ELSE v

\* A loop: F applied to S until Done holds, at most k times.
RECURSIVE Iterate(_, _, _, _)
Iterate(F(_), Done(_), k, S) ==
    IF k <= 1 THEN (IF Done(S) THEN S ELSE F(S))
    ELSE With(Iterate(F, Done, k \div 2, S), LAMBDA M :
           Iterate(F, Done, k - (k \div 2), M))

Min(a, b) == IF a < b THEN a ELSE b
Max(a, b) == IF a > b THEN a ELSE b

\* String.prototype.slice(a, b) for non-negative a, b
Slice(s, a, b) ==
    LET lo == Min(a, Len(s))
        hi == Min(b, Len(s))
    IN  IF lo >= hi THEN <<>> ELSE SubSeq(s, lo + 1, hi)

\* String.prototype.slice(a)
SliceFrom(s, a) == Slice(s, a, Len(s))

\* the concatenation of a sequence of sequences
RECURSIVE Flatten(_)
Flatten(ss) ==
    IF ss = <<>> THEN <<>>
    ELSE IF Len(ss) = 1 THEN ss[1]
    ELSE Flatten(SubSeq(ss, 1, Len(ss) \div 2))
         \o Flatten(SubSeq(ss, Len(ss) \div 2 + 1, Len(ss)))

\* the JavaScript string that a sequence of atoms spells
RECURSIVE Concat(_)
Concat(s) ==
    IF s = <<>> THEN ""
    ELSE IF Len(s) = 1 THEN s[1]
    ELSE Concat(SubSeq(s, 1, Len(s) \div 2))
         \o Concat(SubSeq(s, Len(s) \div 2 + 1, Len(s)))

MinOf(S) == CHOOSE x \in S : \A y \in S : x <= y
MaxOf(S) == CHOOSE x \in S : \A y \in S : x >= y

\* s.startsWith(p, at)
StartsWithAt(s, p, at) ==
    /\ at + Len(p) <= Len(s)
    /\ \A k \in 1..Len(p) : s[at + k] = p[k]

\* s.indexOf(p, from); -1 when absent
IndexOf(s, p, from) ==
    LET hits == {k \in from..(Len(s) - Len(p)) : StartsWithAt(s, p, k)}
    IN  IF hits = {} THEN -1 ELSE MinOf(hits)

Contains(s, p) == IndexOf(s, p, 0) # -1

\* s.replace(/c/g, r) for a one-atom pattern c
ReplaceAll(s, c, r) ==
    Flatten([k \in 1..Len(s) |-> IF s[k] = c THEN r ELSE <<s[k]>>])

White == {" ", "\n", "\t", "\f"}
Digits == {"0", "1", "2", "3", "4", "5", "6", "7", "8", "9"}
\* the atom that stands for the grave accent, the character 0x60
Backtick == "U+0060"

Punct == {"<", ">", "/", "=", "\"", "'", "&", ";", "\\", "$", "|", "-", "[",
          "]", "*", "#", "!", "(", ")", "~", "_", ".", ":", "+", "{",
          "}", "^", ",", "?", "@", "%", Backtick}
IsAlpha(c) == c \notin (White \cup Digits \cup Punct)

\* String.prototype.trim()
\* s without its longest prefix / suffix of atoms in the class
DropWhileIn(s, cls) ==
    IF s = <<>> THEN <<>>
    ELSE LET keep == {k \in 1..Len(s) : s[k] \notin cls}
         IN  IF keep = {} THEN <<>> ELSE SubSeq(s, MinOf(keep), Len(s))
DropEndWhileIn(s, cls) ==
    IF s = <<>> THEN <<>>
    ELSE LET keep == {k \in 1..Len(s) : s[k] \notin cls}
         IN  IF keep = {} THEN <<>> ELSE SubSeq(s, 1, MaxOf(keep))

\* String.prototype.trimStart / trimEnd / trim
TrimStart(s) == DropWhileIn(s, White)
TrimEnd(s) == DropEndWhileIn(s, White)
Trim(s) == TrimEnd(TrimStart(s))

\* s.replace(/[cls]+/g, r)
CollapseClass(s, cls, r) ==
    Flatten([k \in 1..Len(s) |->
        IF s[k] \notin cls THEN <<s[k]>>
        ELSE IF k < Len(s) /\ s[k + 1] \in cls THEN <<>> ELSE <<r>>])

---------------------------------------------------------------------------
(* html-tags and htmlparser2 *)

\* the entries of the html-tags vocabulary that the model's inputs can spell
htmlTags == {"a", "b", "br", "code", "del", "div", "em", "h1", "img", "input",
             "label", "li", "p", "pre", "s", "script", "span", "strong",
             "table", "tbody", "td", "th", "thead", "tr", "u", "ul"}

voidElements == {"br", "img", "input", "hr"}

\* htmlparser2's openImpliesClose table
openImpliesClose(name) ==
    CASE name = "tr" -> {"tr", "th", "td"}
      [] name = "th" -> {"th"}
      [] name = "td" -> {"thead", "th", "td"}
      [] name = "li" -> {"li"}
      [] name \in {"p", "h1", "div", "pre", "table", "ul", "hr"} -> {"p"}
      [] name = "input" -> {"input"}
      [] name = "tbody" -> {"thead", "tbody"}
      [] OTHER -> {}

\* the tokenizer's raw-text elements
specialTags == {"script"}

isEndOfTagSection(c) == c \in ({"/", ">"} \cup White)

Ev(kind, name, P, endIndex) ==
    [kind |-> kind, name |-> name, startIndex |-> P.startIndex,
     endIndex |-> endIndex]

SeqAtoms(s) == {s[k] : k \in 1..Len(s)}

\* index of the first atom at or after i that is in the class, or Len(h)
ScanTo(h, i, stop) ==
    LET hits == {j \in i..(Len(h) - 1) : h[j + 1] \in stop}
    IN  IF hits = {} THEN Max(i, Len(h)) ELSE MinOf(hits)

\* the tokenizer's attribute states: the index of the `>` that ends the open
\* tag whose name ended at j, or -1 when the input ends inside the tag
RECURSIVE FindTagEnd(_, _, _)
FindTagEnd(h, j, mode) ==
    IF j >= Len(h) THEN -1
    ELSE LET c == h[j + 1] IN
      CASE mode = "BeforeAttributeName" ->
             IF c = ">" THEN j
             ELSE IF c = "/" THEN FindTagEnd(h, j + 1, "InSelfClosingTag")
             ELSE IF c \in White THEN FindTagEnd(h, j + 1, mode)
             ELSE FindTagEnd(h, j + 1, "InAttributeName")
        [] mode = "InSelfClosingTag" ->
             IF c = ">" THEN j
             ELSE IF c \in White THEN FindTagEnd(h, j + 1, mode)
             ELSE FindTagEnd(h, j, "BeforeAttributeName")
        [] mode = "InAttributeName" ->
             IF c = "=" THEN FindTagEnd(h, j + 1, "BeforeAttributeValue")
             ELSE IF isEndOfTagSection(c)
                  THEN FindTagEnd(h, j, "AfterAttributeName")
             ELSE FindTagEnd(h, j + 1, mode)
        [] mode = "AfterAttributeName" ->
             IF c = "=" THEN FindTagEnd(h, j + 1, "BeforeAttributeValue")
             ELSE IF c \in {"/", ">"}
                  THEN FindTagEnd(h, j, "BeforeAttributeName")
             ELSE IF c \in White THEN FindTagEnd(h, j + 1, mode)
             ELSE FindTagEnd(h, j + 1, "InAttributeName")
        [] mode = "BeforeAttributeValue" ->
             IF c = "\"" THEN FindTagEnd(h, j + 1, "InAttributeValueDq")
             ELSE IF c \in White THEN FindTagEnd(h, j + 1, mode)
             ELSE FindTagEnd(h, j, "InAttributeValueNq")
        [] mode = "InAttributeValueDq" ->
             IF c = "\"" THEN FindTagEnd(h, j + 1, "BeforeAttributeName")
             ELSE FindTagEnd(h, j + 1, mode)
        [] OTHER -> \* InAttributeValueNq
             IF c = ">" \/ c \in White
             THEN FindTagEnd(h, j, "BeforeAttributeName")
             ELSE FindTagEnd(h, j + 1, mode)

\* Parser.emitOpenTag: the implied closes, then the push, then onopentagname
RECURSIVE ImpliedCloses(_, _, _)
ImpliedCloses(P, name, endIndex) ==
    IF P.stack # <<>> /\ Head(P.stack) \in openImpliesClose(name)
    THEN ImpliedCloses(
           [P EXCEPT !.stack = Tail(P.stack),
                     !.evs = Append(P.evs, Ev("close", Head(P.stack), P, endIndex))],
           name, endIndex)
    ELSE P

emitOpenTag(P, name, endIndex) ==
    With(ImpliedCloses(P, name, endIndex), LAMBDA Q :
    With(IF name \in voidElements THEN Q ELSE [Q EXCEPT !.stack = <<name>> \o Q.stack],
         LAMBDA R : [R EXCEPT !.evs = Append(R.evs, Ev("open", name, R, endIndex))]))

\* index of name in the stack (0-based), -1 when absent
RECURSIVE StackIndexOf(_, _, _)
StackIndexOf(stack, name, k) ==
    IF k >= Len(stack) THEN -1
    ELSE IF stack[k + 1] = name THEN k
    ELSE StackIndexOf(stack, name, k + 1)

RECURSIVE PopTo(_, _, _)
PopTo(P, n, endIndex) ==
    IF n = 0 THEN P
    ELSE PopTo([P EXCEPT !.stack = Tail(P.stack),
                         !.evs = Append(P.evs, Ev("close", Head(P.stack), P, endIndex))],
               n - 1, endIndex)

\* Parser.onclosetag(start, endIndex)
parserOnCloseTag(P, name, endIndex) ==
    With(IF name \notin voidElements
         THEN IF StackIndexOf(P.stack, name, 0) # -1
              THEN PopTo(P, StackIndexOf(P.stack, name, 0) + 1, endIndex)
              ELSE IF name = "p"
                   THEN With(emitOpenTag(P, "p", endIndex), LAMBDA O :
                          [O EXCEPT !.stack = Tail(O.stack),
                                    !.evs = Append(O.evs, Ev("close", "p", O, endIndex))])
                   ELSE P
         ELSE IF name = "br"
              THEN [P EXCEPT !.evs = P.evs \o <<Ev("open", "br", P, endIndex),
                                                 Ev("close", "br", P, endIndex)>>]
              ELSE P,
         LAMBDA Q : [Q EXCEPT !.startIndex = endIndex + 1])

\* Parser.onopentagend / onselfclosingtag (HTML mode): endOpenTag, then the
\* start of the next node
parserOnOpenTagEnd(P, name, openTagStart, endIndex) ==
    LET Q == [P EXCEPT !.startIndex = openTagStart]
        R == IF name \in voidElements
             THEN [Q EXCEPT !.evs = Append(Q.evs, Ev("close", name, Q, endIndex))]
             ELSE Q
    IN  [R EXCEPT !.startIndex = endIndex + 1]

\* Parser.onend: the remaining open elements are closed at startIndex
RECURSIVE CloseAll(_, _)
CloseAll(P, k) ==
    IF k > Len(P.stack) THEN P
    ELSE CloseAll([P EXCEPT !.evs = Append(P.evs,
                      Ev("close", P.stack[k], P, P.startIndex))], k + 1)

\* Tokenizer.finish: trailing text is reported unless the input ends inside
\* a tag; then Parser.onend
parserEnd(h, sectionStart, P, inTag) ==
    LET Q == IF ~inTag /\ sectionStart < Len(h)
             THEN [P EXCEPT !.startIndex = Len(h)] ELSE P
    IN  CloseAll(Q, 1).evs

SkipWhite(h, j) ==
    LET hits == {k \in j..(Len(h) - 1) : h[k + 1] \notin White}
    IN  IF hits = {} THEN Max(j, Len(h)) ELSE MinOf(hits)

\* The tokenizer in its Text state at index i, the running text section
\* having started at ss; `special` is the raw-text element being read or "".
\* A step either ends the parse (fin) with the sequence of onopentagname /
\* onclosetag callbacks, each with parser.startIndex and parser.endIndex as
\* the handler reads them, or moves to the text after the next tag.
TokFin(evs) == [fin |-> TRUE, evs |-> evs, i |-> 0, ss |-> 0, special |-> ""]
TokGo(i, ss, P, special) ==
    [fin |-> FALSE, evs |-> <<>>, i |-> i, ss |-> ss, P |-> P, special |-> special]

\* `<` at index i followed by a tag-start character
TokOpen(h, i, P) ==
    With(ScanTo(h, i + 1, {"/", ">"} \cup White), LAMBDA e :
    IF e >= Len(h) THEN TokFin(parserEnd(h, i, P, TRUE))
    ELSE With(Concat(SubSeq(h, i + 2, e)), LAMBDA name :
         With(emitOpenTag(P, name, e), LAMBDA P2 :
         With(FindTagEnd(h, e, "BeforeAttributeName"), LAMBDA g :
           IF g = -1 THEN TokFin(parserEnd(h, i, P2, TRUE))
           ELSE TokGo(g + 1, g + 1,
                      parserOnOpenTagEnd(P2, name, P.startIndex, g),
                      IF name \in specialTags THEN name ELSE "")))))

\* `</` at index i
TokClose(h, i, P) ==
    With(SkipWhite(h, i + 2), LAMBDA j :
    IF j >= Len(h) THEN TokFin(parserEnd(h, i, P, FALSE))
    ELSE IF h[j + 1] = ">" THEN TokGo(j + 1, i, P, "")
    ELSE IF IsAlpha(h[j + 1]) THEN
      With(ScanTo(h, j, {">"} \cup White), LAMBDA e :
      IF e >= Len(h) THEN TokFin(parserEnd(h, i, P, TRUE))
      ELSE With(parserOnCloseTag(P, Concat(SubSeq(h, j + 1, e)), e), LAMBDA P2 :
           With(ScanTo(h, e, {">"}), LAMBDA g :
             IF g >= Len(h) THEN TokFin(parserEnd(h, 0, P2, FALSE))
             ELSE TokGo(g + 1, g + 1, P2, ""))))
    ELSE
      \* InSpecialComment: a bogus comment up to the next `>`
      With(ScanTo(h, j, {">"}), LAMBDA g :
      IF g >= Len(h) THEN TokFin(parserEnd(h, i, P, FALSE))
      ELSE TokGo(g + 1, g + 1, [P EXCEPT !.startIndex = g + 1], "")))

TokStep(h, i, ss, P, special) ==
    IF i >= Len(h) THEN TokFin(parserEnd(h, ss, P, FALSE))
    ELSE IF h[i + 1] # "<" THEN TokGo(ScanTo(h, i, {"<"}), ss, P, special)
    ELSE IF special # ""
            /\ ~(/\ i + 3 < Len(h)
                 /\ h[i + 2] = "/"
                 /\ h[i + 3] = special
                 /\ isEndOfTagSection(h[i + 4]))
         THEN TokGo(i + 1, ss, P, special)
    ELSE
      With(IF i > ss THEN [P EXCEPT !.startIndex = i] ELSE P, LAMBDA P1 :
      IF i + 1 >= Len(h) THEN TokFin(parserEnd(h, i, P1, FALSE))
      ELSE IF h[i + 2] = "/" THEN TokClose(h, i, P1)
      ELSE IF IsAlpha(h[i + 2]) THEN TokOpen(h, i, P1)
      ELSE TokGo(i + 1, i, P1, ""))

TokNext(h, r) == IF r.fin THEN r ELSE TokStep(h, r.i, r.ss, r.P, r.special)

Tokenize(h, i, ss, P, special) ==
    Iterate(LAMBDA r : TokNext(h, r), LAMBDA r : r.fin, Len(h) + 1,
            TokGo(i, ss, P, special)).evs

\* new htmlparser2.Parser(handlers); parser.write(html); parser.end()
ParserEvents(h) ==
    Tokenize(h, 0, 0, [stack |-> <<>>, startIndex |-> 0, evs |-> <<>>], "")

---------------------------------------------------------------------------
(* escapeCustomTags *)

lt == <<"&", "lt", ";">>
gt == <<"&", "gt", ";">>

\* tagHtml.replace(/</g, '&lt;').replace(/>/g, '&gt;')
EscapeTag(tagHtml) == ReplaceAll(ReplaceAll(tagHtml, "<", lt), ">", gt)

\* s.match(/<\/([^>]+)>/): the captured group, <<>> when there is no match
RECURSIVE MatchCloseName(_, _)
MatchCloseName(s, k) ==
    IF k + 3 > Len(s) THEN <<>>
    ELSE IF s[k + 1] = "<" /\ s[k + 2] = "/"
            /\ ScanTo(s, k + 2, {">"}) > k + 2
            /\ ScanTo(s, k + 2, {">"}) < Len(s)
         THEN SubSeq(s, k + 3, ScanTo(s, k + 2, {">"}))
         ELSE MatchCloseName(s, k + 1)

GuardStart == [result |-> <<>>, currentPos |-> 0, processedPositions |-> {}]

onopentagname(h, g, ev) ==
    LET startPos == ev.startIndex
        endPos == ev.endIndex
        before == g.result \o Slice(h, g.currentPos, startPos)
        tagHtml == Slice(h, startPos, endPos + 1)
    IN  [g EXCEPT
           !.result = IF ev.name \notin htmlTags
                      THEN before \o EscapeTag(tagHtml)
                      ELSE before \o tagHtml,
           !.currentPos = endPos + 1]

onclosetag(h, g, ev) ==
    LET startPos == ev.startIndex
        endPos == ev.endIndex
        actualTagHtml == Slice(h, startPos, endPos + 1)
        actualTagMatch == MatchCloseName(actualTagHtml, 0)
        actualTagName == IF actualTagMatch # <<>> THEN Concat(actualTagMatch)
                         ELSE ev.name
    IN  IF endPos \in g.processedPositions \/ endPos + 1 <= g.currentPos
        THEN g
        ELSE IF actualTagName \notin htmlTags
        THEN [result |-> g.result \o Slice(h, g.currentPos, startPos)
                                  \o EscapeTag(actualTagHtml),
              currentPos |-> endPos + 1,
              processedPositions |-> g.processedPositions \cup {endPos}]
        ELSE [result |-> g.result \o Slice(h, g.currentPos, endPos + 1),
              currentPos |-> endPos + 1,
              processedPositions |-> g.processedPositions \cup {endPos}]

onend(h, g) == [g EXCEPT !.result = g.result \o SliceFrom(h, g.currentPos)]

Handle(h, g, ev) ==
    IF ev.kind = "open" THEN onopentagname(h, g, ev) ELSE onclosetag(h, g, ev)

HandleNext(h, evs, s) ==
    IF s.n > Len(evs) THEN s
    ELSE [n |-> s.n + 1, g |-> Handle(h, s.g, evs[s.n])]

RunHandlers(h, g, evs) ==
    Iterate(LAMBDA s : HandleNext(h, evs, s), LAMBDA s : s.n > Len(evs),
            Len(evs), [n |-> 1, g |-> g]).g

escapeCustomTags(h) == onend(h, RunHandlers(h, GuardStart, ParserEvents(h))).result

---------------------------------------------------------------------------
(* he: the entity codec *)

Drop(s, n) == SubSeq(s, n + 1, Len(s))

\* character references the model's inputs can spell
namedRefs == {"lt", "gt", "amp", "quot", "apos"}
legacyRefs == {"lt", "gt", "amp", "quot"}    \* decodable without `;`
numericRefs == {"#x3C", "#x3E", "#x26", "#x22", "#x27", "#xA"}

EntityChar(n) ==
    CASE n \in {"lt", "#x3C"} -> "<"
      [] n \in {"gt", "#x3E"} -> ">"
      [] n \in {"amp", "#x26"} -> "&"
      [] n \in {"quot", "#x22"} -> "\""
      [] n = "#xA" -> "\n"
      [] OTHER -> "'"

\* the length of the character reference that starts at s[k], 0 when there is
\* none; in an attribute value a reference without `;` that is followed by
\* `=` or an alphanumeric is left alone
refLength(s, k, isAttributeValue) ==
    IF s[k] # "&" \/ k >= Len(s) THEN 0
    ELSE IF s[k + 1] \in namedRefs \cup numericRefs /\ k + 2 <= Len(s) /\ s[k + 2] = ";"
    THEN 3
    ELSE IF s[k + 1] \in numericRefs THEN 2
    ELSE IF s[k + 1] \in legacyRefs
            /\ ~(/\ isAttributeValue
                 /\ k + 2 <= Len(s)
                 /\ (s[k + 2] = "=" \/ IsAlpha(s[k + 2]) \/ s[k + 2] \in Digits))
    THEN 2
    ELSE 0

decodeRefs(s, isAttributeValue) ==
    Flatten([k \in 1..Len(s) |->
        IF refLength(s, k, isAttributeValue) > 0 THEN <<EntityChar(s[k + 1])>>
        ELSE IF k > 1 /\ refLength(s, k - 1, isAttributeValue) >= 2 THEN <<>>
        ELSE IF k > 2 /\ refLength(s, k - 2, isAttributeValue) = 3 THEN <<>>
        ELSE <<s[k]>>])

\* he.decode(text, {isAttributeValue: false, strict: false}) and he.decode(text)
heDecode_raw(s) == s
heDecode(s) == decodeRefs(s, FALSE)

\* he.encode(text, {useNamedReferences})
heEncodeChar(c, useNamedReferences) ==
    CASE c = "<" -> <<"&", IF useNamedReferences THEN "lt" ELSE "#x3C", ";">>
      [] c = ">" -> <<"&", IF useNamedReferences THEN "gt" ELSE "#x3E", ";">>
      [] c = "&" -> <<"&", IF useNamedReferences THEN "amp" ELSE "#x26", ";">>
      [] c = "\"" -> <<"&", IF useNamedReferences THEN "quot" ELSE "#x22", ";">>
      [] c = "'" -> <<"&", IF useNamedReferences THEN "apos" ELSE "#x27", ";">>
      [] OTHER -> <<c>>

\* he.encode that writes named references whatever the option says
heEncode_named(s, useNamedReferences) ==
    Flatten([k \in 1..Len(s) |-> heEncodeChar(s[k], TRUE)])

heEncode(s, useNamedReferences) ==
    Flatten([k \in 1..Len(s) |-> heEncodeChar(s[k], useNamedReferences)])

---------------------------------------------------------------------------
(* The DOM that turndown builds from its input (the HTML parser of the     *)
(* renderer), as a well-nested sequence of open / close / text nodes.      *)

Open(tag, attrs) == [k |-> "open", tag |-> tag, attrs |-> attrs, data |-> <<>>]
Close(tag) == [k |-> "close", tag |-> tag, attrs |-> <<>>, data |-> <<>>]
Text(data) == [k |-> "text", tag |-> "", attrs |-> <<>>, data |-> data]

\* character references in text: as he.decode
domDecodeText(s) == heDecode(s)

\* character references in an attribute value
domDecodeAttr(s) == decodeRefs(s, TRUE)

\* one attribute that starts at s[1]: its name and value, and the atoms it spans
domAttrValue(s, name, vs) ==
    IF vs < Len(s) /\ s[vs + 1] = "\""
    THEN With(ScanTo(s, vs + 1, {"\""}), LAMBDA ve :
           [a |-> [n |-> name, v |-> domDecodeAttr(SubSeq(s, vs + 2, ve))],
            used |-> ve + 1])
    ELSE With(ScanTo(s, vs, White), LAMBDA ve :
           [a |-> [n |-> name, v |-> domDecodeAttr(SubSeq(s, vs + 1, ve))],
            used |-> ve])

domAttr(s, ne) ==
    With(SkipWhite(s, ne), LAMBDA eq :
      IF eq < Len(s) /\ s[eq + 1] = "="
      THEN domAttrValue(s, Concat(SubSeq(s, 1, ne)), SkipWhite(s, eq + 1))
      ELSE [a |-> [n |-> Concat(SubSeq(s, 1, ne)), v |-> <<>>], used |-> ne])

RECURSIVE domAttrs(_)
domAttrs(s) ==
    IF s = <<>> THEN <<>>
    ELSE IF Head(s) \in White \cup {"/"} THEN domAttrs(Tail(s))
    ELSE With(domAttr(s, ScanTo(s, 1, {"=", "/", ">"} \cup White)), LAMBDA r :
           <<r.a>> \o domAttrs(Drop(s, r.used)))

\* element.getAttribute(n): the value, or Null when the attribute is absent
Null == <<"null">>
RECURSIVE getAttribute(_, _)
getAttribute(attrs, n) ==
    IF attrs = <<>> THEN Null
    ELSE IF Head(attrs).n = n THEN Head(attrs).v
    ELSE getAttribute(Tail(attrs), n)

hasAttribute(attrs, n) == \E k \in 1..Len(attrs) : attrs[k].n = n

\* elements of the HTML "special" category that the inputs can spell
domSpecial == {"div", "h1", "li", "p", "pre", "script", "table", "tbody", "td",
               "th", "thead", "tr", "ul", "br", "img", "input", "hr"}

\* start tags that close an open <p>
domClosesP == {"div", "h1", "li", "p", "pre", "table", "ul", "hr"}

\* append a text node, merging it into a preceding text node
AppendText(outp, data) ==
    IF data = <<>> THEN outp
    ELSE IF outp # <<>> /\ outp[Len(outp)].k = "text"
    THEN [outp EXCEPT ![Len(outp)] = Text(outp[Len(outp)].data \o data)]
    ELSE Append(outp, Text(data))

\* pop n open elements, emitting their close nodes
RECURSIVE DomPop(_, _)
DomPop(S, n) ==
    IF n = 0 \/ S.stack = <<>> THEN S
    ELSE DomPop([stack |-> Tail(S.stack),
                 outp |-> Append(S.outp, Close(Head(S.stack)))], n - 1)

\* the elements an open tag closes before it is inserted
DomCloseP(S, name) ==
    With(StackIndexOf(S.stack, "p", 0), LAMBDA pPos :
      IF name \in domClosesP /\ pPos # -1
         /\ \A k \in 1..pPos : S.stack[k] \notin {"table", "td", "th"}
      THEN DomPop(S, pPos + 1) ELSE S)

DomCloseLi(S, name) ==
    With(StackIndexOf(S.stack, "li", 0), LAMBDA liPos :
      IF name = "li" /\ liPos # -1
         /\ \A k \in 1..liPos : S.stack[k] \notin (domSpecial \ {"div", "p"})
      THEN DomPop(S, liPos + 1) ELSE S)

CellPos(stack, td, th) ==
    Min(IF td = -1 THEN Len(stack) ELSE td, IF th = -1 THEN Len(stack) ELSE th)

DomCloseCell(S, name) ==
    With(CellPos(S.stack, StackIndexOf(S.stack, "td", 0),
                 StackIndexOf(S.stack, "th", 0)), LAMBDA cellPos :
      IF name \in {"td", "th", "tr"} /\ cellPos < Len(S.stack)
         /\ \A k \in 1..cellPos : S.stack[k] # "table"
      THEN DomPop(S, cellPos + 1) ELSE S)

DomCloseRow(S, name) ==
    With(StackIndexOf(S.stack, "tr", 0), LAMBDA trPos :
      IF name = "tr" /\ trPos # -1
         /\ \A k \in 1..trPos : S.stack[k] # "table"
      THEN DomPop(S, trPos + 1) ELSE S)

DomImplied(S, name) ==
    DomCloseRow(DomCloseCell(DomCloseLi(DomCloseP(S, name), name), name), name)

\* an end tag: closes the open element of that name, unless a special
\* element stands between a non-special name and the top of the stack
DomEndTag(S, name) ==
    With(StackIndexOf(S.stack, name, 0), LAMBDA pos :
      IF pos = -1
      THEN IF name = "p"
           THEN [S EXCEPT !.outp = S.outp \o <<Open("p", <<>>), Close("p")>>]
           ELSE IF name = "br"
           THEN [S EXCEPT !.outp = S.outp \o <<Open("br", <<>>), Close("br")>>]
           ELSE S
      ELSE IF name \notin domSpecial
              /\ \E k \in 1..pos : S.stack[k] \in domSpecial
      THEN S
      ELSE DomPop(S, pos + 1))

\* index of the next `<` that begins a tag, or Len(h)
NextTagStart(h, i) ==
    With({j \in i..(Len(h) - 2) :
            /\ h[j + 1] = "<"
            /\ \/ IsAlpha(h[j + 2])
               \/ h[j + 2] = "/" /\ j + 2 < Len(h)}, LAMBDA hits :
      IF hits = {} THEN Len(h) ELSE MinOf(hits))

\* one step of the tree builder at index i: the next index and the tree
\* a raw-text element: its content runs to its own end tag
DomRawText(h, g, S1, name, attrs, c) ==
    [i |-> (IF c = -1 THEN Len(h) ELSE ScanTo(h, c, {">"})) + 1,
     S |-> [S1 EXCEPT !.outp =
              Append(AppendText(Append(S1.outp, Open(name, attrs)),
                                Slice(h, g + 1, IF c = -1 THEN Len(h) ELSE c)),
                     Close(name))]]

\* a start tag whose name ends at e and whose `>` is at g
DomStartTag(h, g, S1, name, attrs) ==
    IF name \in voidElements
    THEN [i |-> g + 1,
          S |-> [S1 EXCEPT !.outp = S1.outp \o <<Open(name, attrs), Close(name)>>]]
    ELSE IF name \in specialTags
    THEN DomRawText(h, g, S1, name, attrs, IndexOf(h, <<"<", "/", name>>, g + 1))
    ELSE [i |-> g + 1,
          S |-> [stack |-> <<name>> \o S1.stack,
                 outp |-> Append(S1.outp, Open(name, attrs))]]

DomOpen(h, i, S, e, g) ==
    IF g = -1 THEN [i |-> Len(h), S |-> S]
    ELSE With(Concat(SubSeq(h, i + 2, e)), LAMBDA name :
           DomStartTag(h, g, DomImplied(S, name), name,
                       domAttrs(SubSeq(h, e + 1, g))))

DomClose(h, i, S, g) ==
    IF g >= Len(h) THEN [i |-> Len(h), S |-> S]
    ELSE IF IsAlpha(h[i + 3])
    THEN [i |-> g + 1,
          S |-> DomEndTag(S, Concat(SubSeq(h, i + 3,
                               ScanTo(h, i + 2, {">", "/"} \cup White))))]
    ELSE [i |-> g + 1, S |-> S]

\* one step of the tree builder at index i: the next index and the tree
DomStep(h, i, S) ==
    IF h[i + 1] = "<" /\ i + 1 < Len(h) /\ IsAlpha(h[i + 2]) THEN
      With(ScanTo(h, i + 1, {"/", ">"} \cup White), LAMBDA e :
        DomOpen(h, i, S, e,
                IF e >= Len(h) THEN -1 ELSE FindTagEnd(h, e, "BeforeAttributeName")))
    ELSE IF h[i + 1] = "<" /\ i + 2 < Len(h) /\ h[i + 2] = "/" THEN
      DomClose(h, i, S, ScanTo(h, i + 2, {">"}))
    ELSE
      With(NextTagStart(h, i + 1), LAMBDA n :
        [i |-> n, S |-> [S EXCEPT !.outp = AppendText(S.outp, domDecodeText(Slice(h, i, n)))]])

DomNext(h, r) == IF r.i >= Len(h) THEN r ELSE DomStep(h, r.i, r.S)

DomClosed(S) == DomPop(S, Len(S.stack)).outp

DomBuild(h, i, S) ==
    DomClosed(Iterate(LAMBDA r : DomNext(h, r), LAMBDA r : r.i >= Len(h), Len(h),
                       [i |-> i, S |-> S]).S)

\* the child nodes of turndown's root element for the input h
DomParse(h) == DomBuild(h, 0, [stack |-> <<>>, outp |-> <<>>])

\* index of the close node that matches the open node at index i
MatchNext(d, s) ==
    IF s.j > Len(d) THEN s
    ELSE IF d[s.j].k = "open" THEN [j |-> s.j + 1, depth |-> s.depth + 1]
    ELSE IF d[s.j].k = "close"
         THEN IF s.depth = 0 THEN s ELSE [j |-> s.j + 1, depth |-> s.depth - 1]
    ELSE [j |-> s.j + 1, depth |-> s.depth]

MatchClose(d, j, depth) ==
    Iterate(LAMBDA s : MatchNext(d, s), LAMBDA s : MatchNext(d, s) = s,
            Len(d) - j + 1, [j |-> j, depth |-> depth]).j

CloseOf(d, i) == MatchClose(d, i + 1, 0)

\* node.textContent of the nodes d[i..j]
TextContent(d, i, j) ==
    Flatten([k \in 1..(j - i + 1) |->
        IF d[i + k - 1].k = "text" THEN d[i + k - 1].data ELSE <<>>])

---------------------------------------------------------------------------
(* turndown: collapseWhitespace                                            *)

isBlock(tag) == tag \in {"div", "h1", "li", "p", "pre", "table", "tbody", "td",
                         "th", "thead", "tr", "ul", "hr"}
isVoid(tag) == tag \in voidElements
isMeaningfulWhenBlank(tag) ==
    tag \in {"a", "table", "thead", "tbody", "th", "td", "script"}

AsciiWs == {" ", "\n", "\t"}

\* data.replace(/[ \r\n\t]+/g, ' ')
CollapseRuns(s) == CollapseClass(s, AsciiWs, " ")

EndsWithSpace(s) == s # <<>> /\ s[Len(s)] = " "
StripLastSpace(s) == IF EndsWithSpace(s) THEN SubSeq(s, 1, Len(s) - 1) ELSE s

\* the visit of an element node (on entry, and on exit when it has children)
collapseElement(c, tag) ==
    IF isBlock(tag) \/ tag = "br"
    THEN [outp |-> IF c.prevText # 0
                   THEN [c.outp EXCEPT ![c.prevText] =
                           Text(StripLastSpace(c.outp[c.prevText].data))]
                   ELSE c.outp,
          prevText |-> 0, keepLeadingWs |-> FALSE]
    ELSE IF isVoid(tag) THEN [c EXCEPT !.prevText = 0, !.keepLeadingWs = TRUE]
    ELSE IF c.prevText # 0 THEN [c EXCEPT !.keepLeadingWs = FALSE]
    ELSE c

\* the visit of a text node
collapseAppend(c, t1) ==
    IF t1 = <<>> THEN c
    ELSE [c EXCEPT !.outp = Append(c.outp, Text(t1)),
                   !.prevText = Len(c.outp) + 1]

collapseText(c, data) ==
    With(CollapseRuns(data), LAMBDA t0 :
      collapseAppend(c,
        IF (c.prevText = 0 \/ EndsWithSpace(c.outp[c.prevText].data))
           /\ ~c.keepLeadingWs /\ t0 # <<>> /\ Head(t0) = " "
        THEN Tail(t0) ELSE t0))

\* the visit of the node d[i]: the next index and the walk's state
collapseVisit(d, i, c) ==
    IF d[i].k = "text" THEN [i |-> i + 1, c |-> collapseText(c, d[i].data)]
    ELSE IF d[i].k = "open" THEN
      With(collapseElement(c, d[i].tag), LAMBDA c1 :
        IF d[i].tag = "pre"
        THEN With(CloseOf(d, i), LAMBDA e :
               [i |-> e + 1, c |-> [c1 EXCEPT !.outp = c1.outp \o SubSeq(d, i, e)]])
        ELSE [i |-> i + 1, c |-> [c1 EXCEPT !.outp = Append(c1.outp, d[i])]])
    ELSE
      With(IF d[i - 1].k = "open" THEN c ELSE collapseElement(c, d[i].tag), LAMBDA c1 :
        [i |-> i + 1, c |-> [c1 EXCEPT !.outp = Append(c1.outp, d[i])]])

collapseNext(d, r) == IF r.i > Len(d) THEN r ELSE collapseVisit(d, r.i, r.c)

collapseEnd(c) ==
    IF c.prevText # 0
    THEN [c.outp EXCEPT ![c.prevText] = Text(StripLastSpace(c.outp[c.prevText].data))]
    ELSE c.outp

collapseWalk(d, i, c) ==
    collapseEnd(Iterate(LAMBDA r : collapseNext(d, r), LAMBDA r : r.i > Len(d), Len(d),
                        [i |-> i, c |-> c]).c)

\* text nodes left empty contribute nothing to any rule
DropEmptyText(d) == SelectSeq(d, LAMBDA t : ~(t.k = "text" /\ t.data = <<>>))

collapseWhitespace(d) ==
    DropEmptyText(collapseWalk(d, 1, [outp |-> <<>>, prevText |-> 0,
                                      keepLeadingWs |-> FALSE]))

\* new RootNode(input): the parsed and whitespace-collapsed tree
RootNode(input) == With(DomParse(input), LAMBDA d : collapseWhitespace(d))

---------------------------------------------------------------------------
(* turndown: navigation in the tree                                        *)

\* the open node matching the close node at j; with depth 0 from an inner
\* node, the open node of its parent (0 for the root)
OpenPrev(d, s) ==
    IF s.j < 1 THEN s
    ELSE IF d[s.j].k = "close" THEN [j |-> s.j - 1, depth |-> s.depth + 1]
    ELSE IF d[s.j].k = "open"
         THEN IF s.depth = 0 THEN s ELSE [j |-> s.j - 1, depth |-> s.depth - 1]
    ELSE [j |-> s.j - 1, depth |-> s.depth]

OpenBefore(d, j, depth) ==
    Max(0, Iterate(LAMBDA s : OpenPrev(d, s), LAMBDA s : OpenPrev(d, s) = s, j,
                   [j |-> j, depth |-> depth]).j)

parentNode(d, a) == OpenBefore(d, a - 1, 0)
parentNameOf(d, par) == IF par = 0 THEN "x-turndown" ELSE d[par].tag
parentName(d, a) == parentNameOf(d, parentNode(d, a))

\* the node after the node that starts at j
NextNode(d, j) == IF d[j].k = "open" THEN CloseOf(d, j) + 1 ELSE j + 1

\* Array.prototype.indexOf.call(node.parentNode.childNodes, node)
SiblingNext(d, a, s) ==
    IF s.j >= a THEN s ELSE [j |-> NextNode(d, s.j), n |-> s.n + 1]

SiblingsBefore(d, j, a) ==
    Iterate(LAMBDA s : SiblingNext(d, a, s), LAMBDA s : s.j >= a, a - j,
            [j |-> j, n |-> 0]).n

childIndex(d, a) == SiblingsBefore(d, parentNode(d, a) + 1, a)

\* node.nextSibling of the element closed at b
hasNextSibling(d, b) == b < Len(d) /\ d[b + 1].k # "close"

\* el.children.length of the element d[a..b]
childNext(d, b, s) ==
    IF s.j >= b THEN s
    ELSE [j |-> NextNode(d, s.j), n |-> s.n + (IF d[s.j].k = "open" THEN 1 ELSE 0)]

childElementCount(d, j, b) ==
    Iterate(LAMBDA s : childNext(d, b, s), LAMBDA s : s.j >= b, b - j,
            [j |-> j, n |-> 0]).n

\* the descendants of d[a..b] that satisfy [data-type="v"]
dataTypeNodes(d, a, b, v) ==
    {k \in (a + 1)..(b - 1) :
        d[k].k = "open" /\ getAttribute(d[k].attrs, "data-type") = <<v>>}

FirstOf(S) == CHOOSE x \in S : \A y \in S : x <= y

\* getAttribute(n) || ''
attrOrEmpty(attrs, n) ==
    With(getAttribute(attrs, n), LAMBDA v : IF v = Null THEN <<>> ELSE v)

isBlank(d, a, b) ==
    /\ ~isVoid(d[a].tag)
    /\ ~isMeaningfulWhenBlank(d[a].tag)
    /\ With(TextContent(d, a, b), LAMBDA text :
         \A k \in 1..Len(text) : text[k] \in White)
    /\ \A k \in (a + 1)..(b - 1) :
          d[k].k = "open" => ~isVoid(d[k].tag) /\ ~isMeaningfulWhenBlank(d[k].tag)

---------------------------------------------------------------------------
(* turndown: strings                                                       *)

\* s.length
StrLen(s) == Len(Concat(s))

RECURSIVE Repeat(_, _)
Repeat(s, n) == IF n <= 0 THEN <<>> ELSE s \o Repeat(s, n - 1)

trimLeadingNewlines(s) == DropWhileIn(s, {"\n"})
trimTrailingNewlines(s) == DropEndWhileIn(s, {"\n"})

joinTrimmed(output, replacement, s1, s2) ==
    s1 \o Slice(<<"\n", "\n">>, 0,
                Max(Len(output) - Len(s1), Len(replacement) - Len(s2))) \o s2

join(output, replacement) ==
    With(trimTrailingNewlines(output), LAMBDA s1 :
      With(trimLeadingNewlines(replacement), LAMBDA s2 :
        joinTrimmed(output, replacement, s1, s2)))

\* s.replace(/\n+/g, '\n')
CollapseNewlines(s) == CollapseClass(s, {"\n"}, "\n")

\* s.replace(/\s+/g, ' ')
NormalizeWhitespace(s) == CollapseClass(s, White, " ")

\* s.split('\n')
RECURSIVE Split(_, _)
Split(s, sep) ==
    With(IndexOf(s, <<sep>>, 0), LAMBDA n :
      IF n = -1 THEN <<s>> ELSE <<Slice(s, 0, n)>> \o Split(SliceFrom(s, n + 1), sep))

\* lines.join('\n')
RECURSIVE JoinLines(_, _)
JoinLines(lines, sep) ==
    IF lines = <<>> THEN <<>>
    ELSE IF Len(lines) = 1 THEN Head(lines)
    ELSE Head(lines) \o <<sep>> \o JoinLines(Tail(lines), sep)

RECURSIVE SelectLines(_)
SelectLines(lines) ==
    IF lines = <<>> THEN <<>>
    ELSE (IF Trim(Head(lines)) # <<>> THEN <<Head(lines)>> ELSE <<>>)
         \o SelectLines(Tail(lines))

CountOf(s, c) == Cardinality({k \in 1..Len(s) : s[k] = c})

\* /\|\s*-+/.test(line)
hasSeparatorPattern(line) ==
    \E k \in 1..Len(line) :
        /\ line[k] = "|"
        /\ With(ScanTo(line, k, {c \in SeqAtoms(line) : c \notin White}), LAMBDA j :
             j < Len(line) /\ line[j + 1] = "-")

\* TurndownService.prototype.escape
\* the escapes of turndown, in their order: [pattern, replacement]
escBackslash(s) == ReplaceAll(s, "\\", <<"\\", "\\">>)
escAsterisk(s) == ReplaceAll(s, "*", <<"\\", "*">>)
escDash(s) == IF s # <<>> /\ Head(s) = "-" THEN <<"\\">> \o s ELSE s
escPlus(s) == IF Len(s) >= 2 /\ s[1] = "+" /\ s[2] = " " THEN <<"\\">> \o s ELSE s
escEquals(s) == IF s # <<>> /\ Head(s) = "=" THEN <<"\\">> \o s ELSE s
escHashes(s) ==
    With(ScanTo(s, 0, {c \in SeqAtoms(s) : c # "#"}), LAMBDA h :
      IF h >= 1 /\ h <= 6 /\ h < Len(s) /\ s[h + 1] = " " THEN <<"\\">> \o s ELSE s)
escTildes(s) == IF StartsWithAt(s, <<"~", "~", "~">>, 0) THEN <<"\\">> \o s ELSE s
escBrackets(s) == ReplaceAll(ReplaceAll(s, "[", <<"\\", "[">>), "]", <<"\\", "]">>)
escQuote(s) == IF s # <<>> /\ Head(s) = ">" THEN <<"\\">> \o s ELSE s
escUnderscore(s) == ReplaceAll(s, "_", <<"\\", "_">>)
escOrdered(s) ==
    With(ScanTo(s, 0, {c \in SeqAtoms(s) : c \notin Digits}), LAMBDA n :
      IF n >= 1 /\ n + 1 < Len(s) /\ s[n + 1] = "." /\ s[n + 2] = " "
      THEN Slice(s, 0, n) \o <<"\\">> \o SliceFrom(s, n)
      ELSE s)

\* TurndownService.prototype.escape
turndownEscape(s) ==
    escOrdered(escUnderscore(escQuote(escBrackets(escTildes(escHashes(
      escEquals(escPlus(escDash(escAsterisk(escBackslash(s)))))))))))

---------------------------------------------------------------------------
(* turndown: the rules                                                     *)

\* blankReplacement(_content, node)
\* '$' + he.decode(latex) + '$', and the block form
inlineLatex(attrs) == <<"$">> \o heDecode(attrOrEmpty(attrs, "data-latex")) \o <<"$">>
blockLatex(attrs) ==
    <<"$", "$">> \o heDecode(attrOrEmpty(attrs, "data-latex")) \o <<"$", "$">>

blankParagraph(d, a, b, mathSpans) ==
    IF d[a].tag = "p" /\ mathSpans # {}
       /\ Cardinality(mathSpans) = 1
       /\ childElementCount(d, a + 1, b) = 1
    THEN inlineLatex(d[FirstOf(mathSpans)].attrs)
    ELSE IF isBlock(d[a].tag) THEN <<"\n", "\n">> ELSE <<>>

blankElement(d, a, b, dataType) ==
    IF d[a].tag = "div" /\ dataType = <<"block-math">>
    THEN blockLatex(d[a].attrs) \o <<"\n", "\n">>
    ELSE IF d[a].tag = "span" /\ dataType = <<"inline-math">>
    THEN inlineLatex(d[a].attrs)
    ELSE blankParagraph(d, a, b, dataTypeNodes(d, a, b, "inline-math"))

\* blankReplacement(_content, node)
blankReplacement(d, a, b) ==
    blankElement(d, a, b, getAttribute(d[a].attrs, "data-type"))

\* cleanCellContent(content, cellElement)
cleanText(content, cleaned) ==
    IF content = <<>> THEN <<" ", " ", " ">>
    ELSE IF cleaned = <<>> THEN <<" ", " ", " ">>
    ELSE cleaned \o Repeat(<<" ">>, 3 - StrLen(cleaned))

cleanInline(content, d, inlineMath) ==
    IF inlineMath # {}
    THEN inlineLatex(d[FirstOf(inlineMath)].attrs)
    ELSE With(ReplaceAll(NormalizeWhitespace(Trim(content)), "|", <<"\\", "|">>),
              LAMBDA cleaned : cleanText(content, cleaned))

cleanBlock(content, d, a, b, blockMath) ==
    IF blockMath # {}
    THEN blockLatex(d[FirstOf(blockMath)].attrs)
    ELSE cleanInline(content, d, dataTypeNodes(d, a, b, "inline-math"))

\* cleanCellContent(content, cellElement)
cleanCellContent(content, d, a, b) ==
    cleanBlock(content, d, a, b, dataTypeNodes(d, a, b, "block-math"))

\* parseInt(s, 10); NaN is -1 here, which the caller treats like NaN
RECURSIVE DigitsValue(_, _)
DigitsValue(s, acc) ==
    IF s = <<>> \/ Head(s) \notin Digits THEN acc
    ELSE DigitsValue(Tail(s),
           acc * 10 + (CHOOSE n \in 0..9 : ToString(n) = Head(s)))

parseSigned(neg, u) ==
    IF u = <<>> \/ Head(u) \notin Digits THEN -1
    ELSE IF neg THEN 0 - DigitsValue(u, 0) ELSE DigitsValue(u, 0)

parseInt(s) ==
    With(TrimStart(s), LAMBDA t :
      parseSigned(t # <<>> /\ Head(t) = "-",
                  IF t # <<>> /\ Head(t) \in {"-", "+"} THEN Tail(t) ELSE t))

\* cellWithLatex(content, node, null)
\* parseInt(node.getAttribute('colspan') || '1', 10), made 1 when NaN or < 1
colspanOf(raw) ==
    With(parseInt(IF raw = Null \/ raw = <<>> THEN <<"1">> ELSE raw), LAMBDA parsed :
      IF parsed < 1 THEN 1 ELSE parsed)

cellWithLatex_one(content, d, a, b) ==
    (IF childIndex(d, a) = 0 THEN <<"|", " ">> ELSE <<" ">>)
    \o cleanCellContent(content, d, a, b) \o <<" ", "|">>

\* cellWithLatex(content, node, null)
cellWithLatex(content, d, a, b) ==
    (IF childIndex(d, a) = 0 THEN <<"|", " ">> ELSE <<" ">>)
    \o cleanCellContent(content, d, a, b) \o <<" ", "|">>
    \o Repeat(<<" ", " ", " ", "|">>,
              colspanOf(getAttribute(d[a].attrs, "colspan")) - 1)

\* the tableRow rule
borderCells(d, a, b, colCount) ==
    IF /\ parentName(d, a) = "thead"
       /\ \E k \in 1..a : d[k].k = "open" /\ d[k].tag = "table" /\ CloseOf(d, k) > b
       /\ colCount > 0
    THEN <<"|", " ", "-", "-", "-", " ", "|">>
         \o Repeat(<<" ", "-", "-", "-", " ", "|">>, colCount - 1)
    ELSE <<>>

tableRowWith(content, border) ==
    IF Trim(content) = <<>> THEN <<>>
    ELSE <<"\n">> \o content
         \o (IF border # <<>> THEN <<"\n">> \o border ELSE <<>>)

tableRow(content, d, a, b) ==
    tableRowWith(content,
      borderCells(d, a, b, Cardinality({k \in (a + 1)..(b - 1) :
                              d[k].k = "open" /\ d[k].tag \in {"th", "td"}})))

\* the table rule
tableLines(lines, colCount) ==
    IF ~(Len(lines) >= 2 /\ hasSeparatorPattern(lines[2])) /\ colCount > 0
    THEN JoinLines(<<lines[1],
                     <<"|">> \o Repeat(<<" ", "-", "-", "-", " ", "|">>, colCount)>>
                   \o Tail(lines), "\n")
    ELSE JoinLines(lines, "\n")

tableOf(content, lines) ==
    IF content = <<>> \/ lines = <<>> THEN <<>>
    ELSE <<"\n", "\n">>
         \o tableLines(lines, CountOf(lines[1], "|") - 1)
         \o <<"\n", "\n">>

tableRule(content0) ==
    With(Trim(CollapseNewlines(content0)), LAMBDA content :
      tableOf(content, SelectLines(Split(content, "\n"))))

\* the checked state read from the value of an attribute named checked
taskChecked_byValue(d, a, boxes) ==
    boxes # {} /\ getAttribute(d[FirstOf(boxes)].attrs, "checked") = <<"true">>

\* the checked state with the attribute read only when there is no checkbox
taskChecked_boxFirst(d, a, boxes) ==
    IF boxes # {} THEN hasAttribute(d[FirstOf(boxes)].attrs, "checked")
    ELSE getAttribute(d[a].attrs, "data-checked") = <<"true">>

\* the taskListItems rule: checkbox?.checked || data-checked === 'true'
taskChecked(d, a, boxes) ==
    \/ boxes # {} /\ hasAttribute(d[FirstOf(boxes)].attrs, "checked")
    \/ getAttribute(d[a].attrs, "data-checked") = <<"true">>

taskListItems(d, a, b) ==
    <<"-", " ">>
    \o (IF taskChecked(d, a, {k \in (a + 1)..(b - 1) :
                                d[k].k = "open" /\ d[k].tag = "input"
                                /\ getAttribute(d[k].attrs, "type") = <<"checkbox">>})
        THEN <<"[", "x", "]">> ELSE <<"[", " ", "]">>)
    \o <<" ">> \o Trim(TextContent(d, a, b)) \o <<"\n", "\n">>

\* content.replace(/\n/gm, '\n    ')
listIndent(s) == ReplaceAll(s, "\n", <<"\n", " ", " ", " ", " ">>)

\* CommonMark rule listItem (bulletListMarker '-')
listItemWith(content, d, b) ==
    <<"-", " ", " ", " ">> \o content
    \o (IF hasNextSibling(d, b) /\ ~(content # <<>> /\ content[Len(content)] = "\n")
        THEN <<"\n">> ELSE <<>>)

listItem(content0, d, a, b) ==
    With(trimLeadingNewlines(content0), LAMBDA c1 :
      listItemWith(listIndent(IF c1 # <<>> /\ c1[Len(c1)] = "\n"
                              THEN trimTrailingNewlines(c1) \o <<"\n">> ELSE c1),
                   d, b))

\* CommonMark rule list
listRule(content, d, a, b) ==
    With(parentNode(d, a), LAMBDA par :
      IF /\ parentNameOf(d, par) = "li"
         /\ par # 0
         /\ \A k \in (b + 1)..(CloseOf(d, par) - 1) : d[k].k # "open"
      THEN <<"\n">> \o content
      ELSE <<"\n", "\n">> \o content \o <<"\n", "\n">>)

\* rules.forNode(node): the blank rule, the added rules latest first, the
\* CommonMark rules, the default rule
ruleFor(tag, dataType) ==
    IF tag = "ul" /\ dataType = <<"taskList">> THEN "taskList"
    ELSE IF tag = "li" /\ dataType = <<"taskItem">> THEN "taskListItems"
    ELSE CASE tag \in {"thead", "tbody"} -> "tableSection"
           [] tag = "table" -> "table"
           [] tag = "tr" -> "tableRow"
           [] tag \in {"th", "td"} -> "tableCell"
           [] tag = "br" -> "br"
           [] tag = "u" -> "underline"
           [] tag \in {"del", "s"} -> "strikethrough"
           [] tag = "p" -> "paragraph"
           [] tag = "h1" -> "heading"
           [] tag = "ul" -> "list"
           [] tag = "li" -> "listItem"
           [] tag = "hr" -> "horizontalRule"
           [] tag = "em" -> "emphasis"
           [] tag \in {"strong", "b"} -> "strong"
           [] OTHER -> "default"

forNode(d, a, b) ==
    IF isBlank(d, a, b) THEN "blank"
    ELSE ruleFor(d[a].tag, getAttribute(d[a].attrs, "data-type"))

\* rule.replacement(content, node, options)
ruleReplacement(rule, content, d, a, b) ==
    CASE rule = "blank" -> blankReplacement(d, a, b)
      [] rule = "taskList" -> content
      [] rule = "taskListItems" -> taskListItems(d, a, b)
      [] rule = "tableSection" -> content
      [] rule = "table" -> tableRule(content)
      [] rule = "tableRow" -> tableRow(content, d, a, b)
      [] rule = "tableCell" -> cellWithLatex(content, d, a, b)
      [] rule = "br" -> <<"<", "br", ">">>
      [] rule = "underline" -> <<"<", "u", ">">> \o content \o <<"<", "/", "u", ">">>
      [] rule = "strikethrough" -> <<"~", "~">> \o content \o <<"~", "~">>
      [] rule = "paragraph" -> <<"\n", "\n">> \o content \o <<"\n", "\n">>
      [] rule = "heading" -> <<"\n", "\n", "#", " ">> \o content \o <<"\n", "\n">>
      [] rule = "list" -> listRule(content, d, a, b)
      [] rule = "listItem" -> listItem(content, d, a, b)
      [] rule = "horizontalRule" -> <<"\n", "\n", "-", "-", "-", "\n", "\n">>
      [] rule = "emphasis" ->
           IF Trim(content) = <<>> THEN <<>> ELSE <<"*">> \o content \o <<"*">>
      [] rule = "strong" ->
           IF Trim(content) = <<>> THEN <<>> ELSE <<"*", "*">> \o content \o <<"*", "*">>
      [] OTHER ->
           IF isBlock(d[a].tag) THEN <<"\n", "\n">> \o content \o <<"\n", "\n">>
           ELSE content

\* flankingWhitespace(node): the ASCII whitespace at the edges of an inline
\* element's text, dropped where the sibling already supplies a space
LeadingWs(s) == SubSeq(s, 1, Len(s) - Len(DropWhileIn(s, AsciiWs)))
TrailingWs(s) == SubSeq(s, Len(DropEndWhileIn(s, AsciiWs)) + 1, Len(s))

siblingText(d, j) ==
    IF j < 1 \/ j > Len(d) THEN <<>>
    ELSE IF d[j].k = "text" THEN d[j].data
    ELSE IF d[j].k = "open" /\ ~isBlock(d[j].tag) THEN TextContent(d, j, CloseOf(d, j))
    ELSE IF d[j].k = "close" /\ ~isBlock(d[j].tag)
         THEN With(OpenBefore(d, j - 1, 0), LAMBDA o :
                IF o # 0 THEN TextContent(d, o, j) ELSE <<>>)
    ELSE <<>>

startsWithSpace(s) == s # <<>> /\ Head(s) = " "

flankingEdges(d, a, b, text, lead) ==
    [leading |-> IF a > 1 /\ d[a - 1].k # "open" /\ EndsWithSpace(siblingText(d, a - 1))
                 THEN <<>> ELSE lead,
     trailing |-> IF hasNextSibling(d, b) /\ startsWithSpace(siblingText(d, b + 1))
                  THEN <<>>
                  ELSE IF Len(lead) = Len(text) THEN <<>> ELSE TrailingWs(text)]

flankingWhitespace(d, a, b) ==
    IF isBlock(d[a].tag) THEN [leading |-> <<>>, trailing |-> <<>>]
    ELSE With(TextContent(d, a, b), LAMBDA text :
           flankingEdges(d, a, b, text, LeadingWs(text)))

\* process(parentNode): the reduction over the child nodes d[k..j]
replacementWith(d, a, b, content0, whitespace) ==
    whitespace.leading
    \o ruleReplacement(forNode(d, a, b),
         IF whitespace.leading # <<>> \/ whitespace.trailing # <<>>
         THEN Trim(content0) ELSE content0,
         d, a, b)
    \o whitespace.trailing

\* the replacement of the element d[a..b] whose children reduced to content0
replacementOf(d, a, b, content0) ==
    With(flankingWhitespace(d, a, b), LAMBDA whitespace :
      replacementWith(d, a, b, content0, whitespace))

\* the reduction, node by node: `frames` holds the element being reduced and
\* the output so far for each open element, the innermost first
joinTop(frames, replacement) ==
    With(replacement, LAMBDA r :
      [frames EXCEPT ![1].output = join(frames[1].output, r)])

processNode(d, s, node) ==
    CASE node.k = "text" ->
           [k |-> s.k + 1, frames |-> joinTop(s.frames, turndownEscape(node.data))]
      [] node.k = "open" ->
           [k |-> s.k + 1, frames |-> <<[a |-> s.k, output |-> <<>>]>> \o s.frames]
      [] OTHER ->
           [k |-> s.k + 1,
            frames |-> joinTop(Tail(s.frames),
                         replacementOf(d, s.frames[1].a, s.k, s.frames[1].output))]

processNext(d, j, s) == IF s.k > j THEN s ELSE processNode(d, s, d[s.k])

process(d, k, j, output) ==
    Iterate(LAMBDA s : processNext(d, j, s), LAMBDA s : s.k > j, j - k + 1,
            [k |-> k, frames |-> <<[a |-> 0, output |-> output]>>]).frames[1].output

replacementForNode(d, a, b) ==
    replacementOf(d, a, b, process(d, a + 1, b - 1, <<>>))

\* output.replace(/^[\t\r\n]+/, '').replace(/[\t\r\n\s]+$/, '')
StripLeadingTabsNewlines(s) == DropWhileIn(s, {"\t", "\n"})

postProcess(output) == TrimEnd(StripLeadingTabsNewlines(output))

\* turndownService.turndown(input)
turndownRoot(root) ==
    With(process(root, 1, Len(root), <<>>), LAMBDA output : postProcess(output))

turndown(input) ==
    IF input = <<>> THEN <<>>
    ELSE With(RootNode(input), LAMBDA root : turndownRoot(root))

---------------------------------------------------------------------------
(* markdown-it: the source lines                                           *)

\* markdown-it's isSpace: space and tab only
isSpace(c) == c \in {" ", "\t"}

\* the lines StateBlock finds in src; a final newline opens no further line
srcLines(src) ==
    With(Split(src, "\n"), LAMBDA parts :
      IF parts[Len(parts)] = <<>> THEN SubSeq(parts, 1, Len(parts) - 1) ELSE parts)

\* tShift: the number of leading spaces and tabs of a line
tShift(line) == Len(line) - Len(DropWhileIn(line, {" ", "\t"}))

\* sCount: the column the line's first non-space character stands in
RECURSIVE columnsOf(_, _, _)
columnsOf(line, k, offset) ==
    IF k > Len(line) \/ ~isSpace(line[k]) THEN offset
    ELSE columnsOf(line, k + 1,
                   IF line[k] = "\t" THEN offset + 4 - (offset % 4) ELSE offset + 1)

sCount(line) == columnsOf(line, 1, 0)

\* state.isEmpty(line)
isEmptyLine(line) == tShift(line) = Len(line)

\* the line without `indent` columns of leading space (state.getLines)
RECURSIVE cutIndent(_, _, _)
cutIndent(line, indent, offset) ==
    IF line = <<>> \/ ~isSpace(Head(line)) \/ offset >= indent THEN line
    ELSE cutIndent(Tail(line), indent,
                   IF Head(line) = "\t" THEN offset + 4 - (offset % 4) ELSE offset + 1)

---------------------------------------------------------------------------
(* markdown-it: the inline parser and the inline renderer                  *)

\* markdown-it's escapeHtml
escapeHtml(s) ==
    Flatten([k \in 1..Len(s) |->
        CASE s[k] = "&" -> <<"&", "amp", ";">>
          [] s[k] = "<" -> <<"&", "lt", ";">>
          [] s[k] = ">" -> <<"&", "gt", ";">>
          [] s[k] = "\"" -> <<"&", "quot", ";">>
          [] OTHER -> <<s[k]>>])

\* md.renderer.rules.code_inline
renderCodeInline(content) ==
    <<"<", "code", ">">> \o heEncode(content, FALSE) \o <<"<", "/", "code", ">">>

\* md.renderer.rules.math_inline
renderMathInline(content) ==
    <<"<", "span", " ", "data-latex", "=", "\"">> \o heEncode(content, TRUE)
    \o <<"\"", " ", "data-type", "=", "\"", "inline-math", "\"", ">",
         "<", "/", "span", ">">>

\* md.renderer.rules.math_block
renderMathBlock(content) ==
    <<"<", "div", " ", "data-latex", "=", "\"">> \o heEncode(content, TRUE)
    \o <<"\"", " ", "data-type", "=", "\"", "block-math", "\"", ">",
         "<", "/", "div", ">">>

\* an inline token: its type and its content
Child(type, content) == [type |-> type, content |-> content]

\* math_inline without the test of L322-324
mathInlineClosed_anyLine(src, p, close, content) ==
    IF close = -1 \/ close > Len(src)
    THEN [next |-> -1, toks |-> <<>>]
    ELSE [next |-> close + 1, toks |-> <<Child("math_inline", Trim(content))>>]

\* L331 as `state.pos = close + 2`
mathInlineClosed_pastClose(src, p, close, content) ==
    IF close = -1 \/ close > Len(src) \/ Contains(content, <<"\n">>)
    THEN [next |-> -1, toks |-> <<>>]
    ELSE [next |-> close + 2, toks |-> <<Child("math_inline", Trim(content))>>]

\* the inline rule math_inline at position p (0-based) of src: the token it
\* pushes and the next position, or next = -1 when the rule declines
mathInlineClosed(src, p, close, content) ==
    IF close = -1 \/ close > Len(src) \/ Contains(content, <<"\n">>)
    THEN [next |-> -1, toks |-> <<>>]
    ELSE [next |-> close + 1, toks |-> <<Child("math_inline", Trim(content))>>]

mathInlineRule(src, p) ==
    With(IndexOf(src, <<"$">>, p + 1), LAMBDA close :
      mathInlineClosed(src, p, close, Slice(src, p + 1, close)))

\* html_inline: `<name ...>` or `</name>` at position p, raw up to its `>`
htmlInlineEnd(src, p, g) ==
    IF g = -1 \/ g >= Len(src) \/ src[g + 1] # ">"
       \/ Contains(Slice(src, p + 1, g), <<"<">>)
    THEN [next |-> -1, toks |-> <<>>]
    ELSE [next |-> g + 1, toks |-> <<Child("html_inline", Slice(src, p, g + 1))>>]

htmlInlineName(src, p, isClose, n) ==
    htmlInlineEnd(src, p,
      IF n < Len(src) /\ IsAlpha(src[n + 1])
      THEN IF isClose THEN SkipWhite(src, n + 1)
           ELSE FindTagEnd(src, n + 1, "BeforeAttributeName")
      ELSE -1)

htmlInlineRule(src, p) ==
    IF p + 1 < Len(src) /\ src[p + 2] = "/"
    THEN htmlInlineName(src, p, TRUE, p + 2)
    ELSE htmlInlineName(src, p, FALSE, p + 1)

\* the number of leading markers of t
markerRun(t, marker) == Len(t) - Len(DropWhileIn(t, {marker}))

\* .replace(/^ (.+) $/, '$1')
stripSpacePair(t) ==
    IF Len(t) >= 3 /\ t[1] = " " /\ t[Len(t)] = " " THEN SubSeq(t, 2, Len(t) - 1)
    ELSE t

\* the starts, from position `from`, of the runs of exactly n backticks
closerStarts(src, from, n) ==
    {m \in from..(Len(src) - 1) :
        /\ src[m + 1] = Backtick
        /\ src[m] # Backtick
        /\ markerRun(SliceFrom(src, m), Backtick) = n}

backticksClosed(src, p, openerLength, closers) ==
    IF closers = {}
    THEN [next |-> p + openerLength,
          toks |-> <<Child("text", Slice(src, p, p + openerLength))>>]
    ELSE [next |-> MinOf(closers) + openerLength,
          toks |-> <<Child("code_inline",
                       stripSpacePair(ReplaceAll(
                         Slice(src, p + openerLength, MinOf(closers)), "\n", <<" ">>)))>>]

\* the inline rule backticks at position p of src
backticksRule(src, p) ==
    With(markerRun(SliceFrom(src, p), Backtick), LAMBDA openerLength :
      backticksClosed(src, p, openerLength,
                      closerStarts(src, p + openerLength, openerLength)))

\* the number of leading 0x20 characters
spaceRun(t) == Len(t) - Len(DropWhileIn(t, {" "}))

\* ASCII punctuation that a backslash escapes
isPunctChar(c) == c \in Punct

\* a rule's result, or the character as text when every rule declines
orText(r, p, text) ==
    IF r.next # -1 THEN r ELSE [next |-> p + 1, toks |-> <<Child("text", text)>>]

\* text; the newline rule drops the spaces before a newline, and makes a
\* hard break of two or more of them
textRule(src, p, c, run) ==
    IF c = " " /\ p + run < Len(src) /\ src[p + run + 1] = "\n"
    THEN IF run >= 2
         THEN [next |-> p + run + 1 + tShift(SliceFrom(src, p + run + 1)),
               toks |-> <<Child("hardbreak", <<>>)>>]
         ELSE [next |-> p + run, toks |-> <<>>]
    ELSE [next |-> p + 1, toks |-> <<Child("text", <<c>>)>>]

\* one inline rule application at position p: the tokens, the next position
inlineRule(src, p, c) ==
    CASE c = "\n" ->
           \* newline: a soft break; the spaces that follow are skipped
           [next |-> p + 1 + tShift(SliceFrom(src, p + 1)),
            toks |-> <<Child("softbreak", <<>>)>>]
      [] c = "\\" ->
           IF p + 1 < Len(src) /\ src[p + 2] = "\n"
           THEN [next |-> p + 2 + tShift(SliceFrom(src, p + 2)),
                 toks |-> <<Child("hardbreak", <<>>)>>]
           ELSE IF p + 1 < Len(src) /\ isPunctChar(src[p + 2])
           THEN [next |-> p + 2, toks |-> <<Child("text", <<src[p + 2]>>)>>]
           ELSE [next |-> p + 1, toks |-> <<Child("text", <<"\\">>)>>]
      [] c = Backtick -> backticksRule(src, p)
      [] c = "$" -> orText(mathInlineRule(src, p), p, <<"$">>)
      [] c = "<" -> orText(htmlInlineRule(src, p), p, <<"<">>)
      [] c = "&" ->
           IF p + 2 < Len(src) /\ src[p + 2] \in namedRefs \cup numericRefs
              /\ src[p + 3] = ";"
           THEN [next |-> p + 3, toks |-> <<Child("text", <<EntityChar(src[p + 2])>>)>>]
           ELSE [next |-> p + 1, toks |-> <<Child("text", <<"&">>)>>]
      [] OTHER -> textRule(src, p, c, spaceRun(SliceFrom(src, p)))

inlineStep(src, p) == inlineRule(src, p, src[p + 1])

\* state.md.inline.parse for the content of one inline token
inlineNext(src, s) ==
    IF s.next >= Len(src) THEN s
    ELSE With(inlineStep(src, s.next), LAMBDA r :
           [next |-> r.next, toks |-> s.toks \o r.toks])

inlineTokenize(src, p, acc) ==
    Iterate(LAMBDA s : inlineNext(src, s), LAMBDA s : s.next >= Len(src),
            Len(src) - p, [next |-> p, toks |-> acc]).toks

\* Renderer.renderInline: the default rules and the rules of L96-100, L337-341
renderChild(t) ==
    CASE t.type = "text" -> escapeHtml(t.content)
      [] t.type = "html_inline" -> t.content
      [] t.type = "softbreak" -> <<"\n">>
      [] t.type = "hardbreak" -> <<"<", "br", " ", "/", ">", "\n">>
      [] t.type = "math_inline" -> renderMathInline(t.content)
      [] t.type = "code_inline" -> renderCodeInline(t.content)

renderInline(children) ==
    Flatten([k \in 1..Len(children) |-> renderChild(children[k])])

---------------------------------------------------------------------------
(* markdown-it: block tokens                                               *)

Token(type, tag, nesting) ==
    [type |-> type, tag |-> tag, nesting |-> nesting, attrs |-> <<>>,
     content |-> <<>>, hidden |-> FALSE, children |-> <<>>]

\* an inline token after the core rule `inline`
InlineToken(content) ==
    [Token("inline", "", 0) EXCEPT !.content = content,
                                   !.children = inlineTokenize(content, 0, <<>>)]

\* token.attrSet(name, value)
attrSet(token, name, value) ==
    IF hasAttribute(token.attrs, name)
    THEN [token EXCEPT !.attrs =
            [k \in 1..Len(token.attrs) |->
                IF token.attrs[k].n = name THEN [n |-> name, v |-> value]
                ELSE token.attrs[k]]]
    ELSE [token EXCEPT !.attrs = Append(token.attrs, [n |-> name, v |-> value])]

\* lines.join('\n')
joinLines(lines) == JoinLines(lines, "\n")

---------------------------------------------------------------------------
(* markdown-it: the block rules that the model's inputs reach.  A rule      *)
(* returns ok, the tokens it pushes and the line the parser goes on with.  *)
(* Lines are counted from 1.                                               *)

NoMatch == [ok |-> FALSE, toks |-> <<>>, next |-> 0]

\* rule `code`: an indented code block
RECURSIVE codeLast(_, _, _)
codeLast(lines, k, last) ==
    IF k > Len(lines) THEN last
    ELSE IF isEmptyLine(lines[k]) THEN codeLast(lines, k + 1, last)
    ELSE IF sCount(lines[k]) >= 4 THEN codeLast(lines, k + 1, k)
    ELSE last

codeBlock(lines, i, last) ==
    [ok |-> TRUE, next |-> last + 1,
     toks |-> <<[Token("code_block", "code", 0) EXCEPT !.content =
                   joinLines([k \in 1..(last - i + 1) |->
                                cutIndent(lines[i + k - 1], 4, 0)]) \o <<"\n">>]>>]

codeRule(lines, i) ==
    IF sCount(lines[i]) < 4 THEN NoMatch
    ELSE codeBlock(lines, i, codeLast(lines, i + 1, i))

\* rule `fence`: the marker, the length of the opening run and the info
\* string of a line that opens a fence, ok = FALSE for any other line
fenceOpening(line) ==
    With(DropWhileIn(line, {" ", "\t"}), LAMBDA text :
      IF sCount(line) >= 4 \/ Len(text) < 3 \/ text[1] \notin {"~", Backtick}
      THEN [ok |-> FALSE]
      ELSE With(markerRun(text, text[1]), LAMBDA len :
             IF len < 3 \/ (text[1] = Backtick /\ Contains(SliceFrom(text, len), <<Backtick>>))
             THEN [ok |-> FALSE]
             ELSE [ok |-> TRUE, marker |-> text[1], len |-> len,
                   info |-> SliceFrom(text, len)]))

\* the line closes a fence of `len` markers
closesFence(line, marker, len) ==
    With(DropWhileIn(line, {" ", "\t"}), LAMBDA text :
      /\ sCount(line) < 4
      /\ markerRun(text, marker) >= len
      /\ isEmptyLine(DropWhileIn(text, {marker})))

\* the closing line of the fence opened at line i, Len(lines) + 1 when the
\* fence runs to the end of the document
fenceEnd(lines, i, opening) ==
    With({k \in (i + 1)..Len(lines) : closesFence(lines[k], opening.marker, opening.len)},
         LAMBDA closers : IF closers = {} THEN Len(lines) + 1 ELSE MinOf(closers))

\* state.getLines(begin, end, indent, true): every line with its newline;
\* the last line of a source that ends without one has none
getLines(lines, begin, end, indent, lastLF) ==
    Flatten([k \in 1..(end - begin) |->
        cutIndent(lines[begin + k - 1], indent, 0)
        \o (IF begin + k - 1 = Len(lines) /\ ~lastLF THEN <<>> ELSE <<"\n">>)])

fenceToken(info, content) ==
    [type |-> "fence", tag |-> "code", nesting |-> 0, attrs |-> <<>>,
     content |-> content, hidden |-> FALSE, children |-> <<>>, info |-> info]

fenceOpened(lines, i, opening, nextLine, lastLF) ==
    [ok |-> TRUE,
     next |-> IF nextLine > Len(lines) THEN nextLine ELSE nextLine + 1,
     toks |-> <<fenceToken(opening.info,
                  getLines(lines, i + 1, nextLine, sCount(lines[i]), lastLF))>>]

\* rule `fence`
fenceRule(lines, i, lastLF) ==
    With(fenceOpening(lines[i]), LAMBDA opening :
      IF ~opening.ok THEN NoMatch
      ELSE fenceOpened(lines, i, opening, fenceEnd(lines, i, opening), lastLF))

\* the first line after i that contains `$$`, 0 when there is none
closingLine(lines, i) ==
    With({k \in (i + 1)..Len(lines) :
            Contains(DropWhileIn(lines[k], {" ", "\t"}), <<"$", "$">>)}, LAMBDA hits :
      IF hits = {} THEN 0 ELSE MinOf(hits))

\* rule `math_block` of tipTapKatexPlugin
nonBlank(content) == IF Trim(content) # <<>> THEN <<content>> ELSE <<>>

mathBlockContent(lines, i, text, nextLine, last) ==
    Trim(joinLines(nonBlank(SliceFrom(text, 2))
                   \o [k \in 1..(nextLine - i - 1) |->
                          DropWhileIn(lines[i + k], {" ", "\t"})]
                   \o nonBlank(Slice(last, 0, IndexOf(last, <<"$", "$">>, 0)))))

mathBlockMulti(lines, i, text, nextLine) ==
    IF nextLine = 0 THEN NoMatch
    ELSE [ok |-> TRUE, next |-> nextLine + 1,
          toks |-> <<[Token("math_block", "div", 0) EXCEPT !.content =
                        mathBlockContent(lines, i, text, nextLine,
                          DropWhileIn(lines[nextLine], {" ", "\t"}))]>>]

mathBlockOpened(lines, i, text, sameLineClose) ==
    IF sameLineClose # -1
    THEN [ok |-> TRUE, next |-> i + 1,
          toks |-> <<[Token("math_block", "div", 0) EXCEPT
                        !.content = Trim(Slice(text, 2, sameLineClose))]>>]
    ELSE mathBlockMulti(lines, i, text, closingLine(lines, i))

\* rule `math_block` of tipTapKatexPlugin
mathBlockRule(lines, i) ==
    With(DropWhileIn(lines[i], {" ", "\t"}), LAMBDA text :
      IF ~StartsWithAt(text, <<"$", "$">>, 0) THEN NoMatch
      ELSE mathBlockOpened(lines, i, text, IndexOf(text, <<"$", "$">>, 2)))

\* escapedSplit(str) of the table rule: the cells between unescaped pipes,
\* each `\|` reduced to `|`
RECURSIVE cutAt(_, _, _)
cutAt(str, from, pipes) ==
    IF pipes = {} THEN <<SliceFrom(str, from)>>
    ELSE With(MinOf(pipes), LAMBDA m :
           <<Slice(str, from, m - 1)>> \o cutAt(str, m, pipes \ {m}))

unescapePipes(cell) ==
    Flatten([k \in 1..Len(cell) |->
        IF cell[k] = "\\" /\ k < Len(cell) /\ cell[k + 1] = "|" THEN <<>>
        ELSE <<cell[k]>>])

unescapeCells(cells) == [k \in 1..Len(cells) |-> unescapePipes(cells[k])]

escapedSplit(str) ==
    unescapeCells(cutAt(str, 0,
      {k \in 1..Len(str) : str[k] = "|" /\ (k = 1 \/ str[k - 1] # "\\")}))

\* the columns of a table row: the split, less an empty first and last cell
dropEmptyFirst(c) == IF c # <<>> /\ Head(c) = <<>> THEN Tail(c) ELSE c
dropEmptyLast(c) ==
    IF c # <<>> /\ c[Len(c)] = <<>> THEN SubSeq(c, 1, Len(c) - 1) ELSE c

\* the columns of a table row: the split, less an empty first and last cell
rowColumns(line) == dropEmptyLast(dropEmptyFirst(escapedSplit(Trim(line))))

\* the delimiter row's columns, <<>> when the line is no delimiter row
alignCell(t) == "-" \in SeqAtoms(t) /\ \A m \in 1..Len(t) : t[m] = "-"

alignCount(text, cells, inner) ==
    IF /\ Len(text) >= 2
       /\ text[1] \in {"|", "-", ":"}
       /\ ~(text[1] = "-" /\ isSpace(text[2]))
       /\ \A k \in 1..Len(text) : text[k] \in {"|", "-", ":", " ", "\t"}
       /\ \A k \in 1..Len(cells) :
             \/ k \in inner /\ alignCell(cells[k])
             \/ k \notin inner /\ k \in {1, Len(cells)}
    THEN Cardinality(inner) ELSE 0

trimAll(columns) == [k \in 1..Len(columns) |-> Trim(columns[k])]

alignCells(text, cells) ==
    alignCount(text, cells, {k \in 1..Len(cells) : cells[k] # <<>>})

alignColumns(line) ==
    alignCells(DropWhileIn(line, {" ", "\t"}), trimAll(Split(line, "|")))

\* the body rows: up to the first blank, over-indented or block-starting line
RECURSIVE tableEnd(_, _)
tableEnd(lines, k) ==
    IF k > Len(lines) \/ Trim(lines[k]) = <<>> \/ sCount(lines[k]) >= 4 THEN k
    ELSE tableEnd(lines, k + 1)

cellTokens(tag, columns, columnCount) ==
    Flatten([k \in 1..columnCount |->
        <<Token(tag \o "_open", tag, 1),
          InlineToken(IF k <= Len(columns) THEN Trim(columns[k]) ELSE <<>>),
          Token(tag \o "_close", tag, -1)>>])

rowTokens(tag, columns, columnCount) ==
    <<Token("tr_open", "tr", 1)>> \o cellTokens(tag, columns, columnCount)
    \o <<Token("tr_close", "tr", -1)>>

\* rule `table`
tableTokens(lines, i, columns, columnCount, last) ==
    [ok |-> TRUE, next |-> last,
     toks |-> <<Token("table_open", "table", 1),
                Token("thead_open", "thead", 1)>>
              \o rowTokens("th", columns, columnCount)
              \o <<Token("thead_close", "thead", -1)>>
              \o (IF last > i + 2
                  THEN <<Token("tbody_open", "tbody", 1)>>
                       \o Flatten([k \in 1..(last - i - 2) |->
                            rowTokens("td", rowColumns(lines[i + 1 + k]),
                                      columnCount)])
                       \o <<Token("tbody_close", "tbody", -1)>>
                  ELSE <<>>)
              \o <<Token("table_close", "table", -1)>>]

tableHead(lines, i, columns, columnCount) ==
    IF columnCount = 0 \/ columnCount # alignColumns(lines[i + 1])
    THEN NoMatch
    ELSE tableTokens(lines, i, columns, columnCount, tableEnd(lines, i + 2))

\* rule `table`
tableRule2(lines, i) ==
    IF i + 1 > Len(lines) \/ sCount(lines[i + 1]) >= 4 \/ sCount(lines[i]) >= 4
       \/ ~Contains(lines[i], <<"|">>)
    THEN NoMatch
    ELSE With(rowColumns(lines[i]), LAMBDA columns :
           tableHead(lines, i, columns, Len(columns)))

\* rule `hr`: three or more of one marker, and nothing but spaces besides
hrMarks(line, text, marks) ==
    IF sCount(line) < 4 /\ text # <<>> /\ text[1] \in {"*", "-", "_"}
       /\ Cardinality(marks) >= 3
       /\ \A k \in 1..Len(text) : k \in marks \/ isSpace(text[k])
    THEN TRUE ELSE FALSE

hrRule(lines, i) ==
    With(DropWhileIn(lines[i], {" ", "\t"}), LAMBDA text :
      IF hrMarks(lines[i], text, {k \in 1..Len(text) : text[k] = text[1]})
      THEN [ok |-> TRUE, next |-> i + 1, toks |-> <<Token("hr", "hr", 0)>>]
      ELSE NoMatch)

\* skipBulletListMarker, skipOrderedListMarker: the width of the list marker
\* the text starts with, 0 when it starts with none
orderedMarkerWidth(text, digits) ==
    IF digits \in 1..9 /\ Len(text) > digits /\ text[digits + 1] \in {".", ")"}
    THEN digits + 1 ELSE 0

markerWidth(text) ==
    IF text = <<>> THEN 0
    ELSE IF text[1] \in {"*", "-", "+"} THEN 1
    ELSE orderedMarkerWidth(text, Len(text) - Len(DropWhileIn(text, Digits)))

\* the line starts a list item
listStart(line) ==
    With(DropWhileIn(line, {" ", "\t"}), LAMBDA text :
      /\ sCount(line) < 4
      /\ markerWidth(text) > 0
      /\ Len(text) = markerWidth(text) \/ isSpace(text[markerWidth(text) + 1]))

\* the text of a line after its list marker
afterListMarker(text) == SliceFrom(text, markerWidth(text))

\* the marker character: the bullet, or the delimiter of an ordered marker
markerChar(text) == text[markerWidth(text)]

\* whether the marker is an ordered one
isOrdered(text) == markerWidth(text) > 1

\* the names of html_blocks.mjs
mdBlockNames ==
    {"address", "article", "aside", "base", "basefont", "blockquote", "body",
     "caption", "center", "col", "colgroup", "dd", "details", "dialog", "dir",
     "div", "dl", "dt", "fieldset", "figcaption", "figure", "footer", "form",
     "frame", "frameset", "h1", "h2", "h3", "h4", "h5", "h6", "head", "header",
     "hr", "html", "iframe", "legend", "li", "link", "main", "menu", "menuitem",
     "nav", "noframes", "ol", "optgroup", "option", "p", "param", "search",
     "section", "summary", "table", "tbody", "td", "tfoot", "th", "thead",
     "title", "tr", "track", "ul"}

mdRawNames == {"script", "pre", "style", "textarea"}

\* the html_block start condition that the line meets: 1, 6, 7 or 0 for none
htmlBlockType7(text, name, tagEnd) ==
    IF tagEnd # -1 /\ name \notin mdRawNames
       /\ DropWhileIn(SliceFrom(text, tagEnd), {" ", "\t"}) = <<>>
    THEN 7 ELSE 0

htmlBlockType(line, text, isClose, n) ==
    IF sCount(line) >= 4 \/ Len(text) < n + 1 \/ text[1] # "<" \/ ~IsAlpha(text[n + 1])
    THEN 0
    ELSE IF ~isClose /\ text[n + 1] \in mdRawNames
            /\ (Len(text) = n + 1 \/ text[n + 2] \in {" ", "\t", ">"})
    THEN 1
    ELSE IF text[n + 1] \in mdBlockNames
            /\ (Len(text) = n + 1 \/ text[n + 2] \in {" ", "\t", ">"}
                \/ StartsWithAt(text, <<"/", ">">>, n + 1))
    THEN 6
    ELSE htmlBlockType7(text, text[n + 1], htmlInlineRule(text, 0).next)

htmlBlockStart(line) ==
    With(DropWhileIn(line, {" ", "\t"}), LAMBDA text :
      IF Len(text) >= 2 /\ text[2] = "/"
      THEN htmlBlockType(line, text, TRUE, 2)
      ELSE htmlBlockType(line, text, FALSE, 1))

\* the first line at or after k that ends an html block of the kind
RECURSIVE htmlBlockEnd(_, _, _)
htmlBlockEnd(lines, k, kind) ==
    IF k > Len(lines) THEN k
    ELSE IF kind = 1
    THEN IF \E t \in mdRawNames : Contains(lines[k], <<"<", "/", t, ">">>)
         THEN k + 1 ELSE htmlBlockEnd(lines, k + 1, kind)
    ELSE IF isEmptyLine(lines[k]) THEN k ELSE htmlBlockEnd(lines, k + 1, kind)

\* rule `html_block`; lastLF: the document's last line ends in a line feed
htmlBlock(lines, i, lastLF, next) ==
    [ok |-> TRUE, next |-> next,
     toks |-> <<[Token("html_block", "", 0) EXCEPT !.content =
                   joinLines([k \in 1..(next - i) |-> lines[i + k - 1]])
                   \o (IF next > Len(lines) /\ ~lastLF THEN <<>> ELSE <<"\n">>)]>>]

htmlBlockOf(lines, i, lastLF, kind) ==
    IF kind = 0 THEN NoMatch
    ELSE htmlBlock(lines, i, lastLF,
                   htmlBlockEnd(lines, IF kind = 1 THEN i ELSE i + 1, kind))

htmlBlockRule(lines, i, lastLF) ==
    htmlBlockOf(lines, i, lastLF, htmlBlockStart(lines[i]))

\* a line that ends the paragraph before it
startsItemWithText(text) ==
    /\ Trim(afterListMarker(text)) # <<>>
    /\ isOrdered(text) => SubSeq(text, 1, markerWidth(text) - 1) = <<"1">>

terminatesParagraph(line) ==
    /\ sCount(line) < 4
    /\ \/ hrRule(<<line>>, 1).ok
       \/ fenceOpening(line).ok
       \/ listStart(line) /\ startsItemWithText(DropWhileIn(line, {" ", "\t"}))
       \/ htmlBlockStart(line) \in {1, 6}

RECURSIVE paragraphEnd(_, _)
paragraphEnd(lines, k) ==
    IF k > Len(lines) \/ isEmptyLine(lines[k]) THEN k
    ELSE IF sCount(lines[k]) < 4 /\ terminatesParagraph(lines[k]) THEN k
    ELSE paragraphEnd(lines, k + 1)

\* rule `paragraph`
paragraph(lines, i, next) ==
    [ok |-> TRUE, next |-> next,
     toks |-> <<Token("paragraph_open", "p", 1),
                InlineToken(Trim(joinLines([k \in 1..(next - i) |-> lines[i + k - 1]]))),
                Token("paragraph_close", "p", -1)>>]

paragraphRule(lines, i) == paragraph(lines, i, paragraphEnd(lines, i + 1))

\* the first non-empty line at or after k, Len(lines) + 1 when there is none
skipEmptyLines(lines, k) ==
    With({m \in k..Len(lines) : ~isEmptyLine(lines[m])}, LAMBDA full :
      IF full = {} THEN Len(lines) + 1 ELSE MinOf(full))

\* rule `list`, one item: the column its content is indented to
indentAfterMarker(rest) ==
    With(IF isEmptyLine(rest) THEN 1 ELSE sCount(rest), LAMBDA n :
      IF n > 4 THEN 1 ELSE n)

itemIndent(line) ==
    With(DropWhileIn(line, {" ", "\t"}), LAMBDA text :
      sCount(line) + markerWidth(text) + indentAfterMarker(afterListMarker(text)))

\* the item's first line as its content sees it
itemFirstLine(line) ==
    With(afterListMarker(DropWhileIn(line, {" ", "\t"})), LAMBDA rest :
      IF isEmptyLine(rest) THEN <<>>
      ELSE Repeat(<<" ">>, sCount(rest) - indentAfterMarker(rest))
           \o DropWhileIn(rest, {" ", "\t"}))

\* the last line of the item that starts at line i; k is the line looked at
RECURSIVE itemLast(_, _, _, _)
itemLast(lines, i, k, last) ==
    IF k > Len(lines) THEN last
    ELSE IF isEmptyLine(lines[k])
    THEN IF k = i + 1 /\ itemFirstLine(lines[i]) = <<>> THEN last
         ELSE itemLast(lines, i, k + 1, last)
    ELSE IF sCount(lines[k]) >= itemIndent(lines[i]) THEN itemLast(lines, i, k + 1, k)
    ELSE IF last = k - 1 /\ ~terminatesParagraph(lines[k]) /\ ~listStart(lines[k])
            /\ ~isEmptyLine(IF k - 1 = i THEN itemFirstLine(lines[i]) ELSE lines[k - 1])
    THEN itemLast(lines, i, k + 1, k)
    ELSE last

itemLinesAt(lines, i, last, indent) ==
    <<itemFirstLine(lines[i])>>
    \o [k \in 1..(last - i) |->
           IF sCount(lines[i + k]) >= indent
           THEN cutIndent(lines[i + k], indent, 0)
           ELSE lines[i + k]]

itemLines(lines, i, last) == itemLinesAt(lines, i, last, itemIndent(lines[i]))

\* the number of open blocks around token k
RECURSIVE levelAt(_, _)
levelAt(toks, k) ==
    IF k <= 1 THEN 0 ELSE levelAt(toks, k - 1) + toks[k - 1].nesting

\* markTightParagraphs, on the tokens of one item
markTightParagraphs(toks) ==
    [k \in 1..Len(toks) |->
        IF \/ toks[k].type = "paragraph_open" /\ levelAt(toks, k) = 0
           \/ toks[k].type = "paragraph_close" /\ levelAt(toks, k) = 1
        THEN [toks[k] EXCEPT !.hidden = TRUE] ELSE toks[k]]

\* the lines at which the items of the list that starts at line i start
RECURSIVE listItems(_, _, _)
listItems(lines, i, marker) ==
    With(skipEmptyLines(lines, itemLast(lines, i, i + 1, i) + 1), LAMBDA next :
      IF next <= Len(lines) /\ listStart(lines[next]) /\ ~hrRule(lines, next).ok
         /\ markerChar(DropWhileIn(lines[next], {" ", "\t"})) = marker
      THEN <<i>> \o listItems(lines, next, marker)
      ELSE <<i>>)

RECURSIVE blockTokenize(_, _, _, _)

\* rule `list`
\* whether no item holds a blank line and none but the last is followed by one
listTight(lines, starts, lastOf) ==
    \A k \in 1..Len(starts) :
       /\ ~ \E m \in (starts[k] + 1)..(lastOf[k] - 1) : isEmptyLine(lines[m])
       /\ k < Len(starts) => ~(lastOf[k] < Len(lines) /\ isEmptyLine(lines[lastOf[k] + 1]))

\* the opening and the closing token of a list
listOpen(ordered) ==
    IF ordered THEN Token("ordered_list_open", "ol", 1)
    ELSE Token("bullet_list_open", "ul", 1)

listClose(ordered) ==
    IF ordered THEN Token("ordered_list_close", "ol", -1)
    ELSE Token("bullet_list_close", "ul", -1)

listTokens(lines, starts, lastOf, bodyOf, tight) ==
    [ok |-> TRUE,
     next |-> skipEmptyLines(lines, lastOf[Len(starts)] + 1),
     toks |-> <<listOpen(isOrdered(DropWhileIn(lines[starts[1]], {" ", "\t"})))>>
              \o Flatten([k \in 1..Len(starts) |->
                   <<Token("list_item_open", "li", 1)>>
                   \o (IF tight THEN markTightParagraphs(bodyOf[k]) ELSE bodyOf[k])
                   \o <<Token("list_item_close", "li", -1)>>])
              \o <<listClose(isOrdered(DropWhileIn(lines[starts[1]], {" ", "\t"})))>>]

listBodies(lines, starts, lastOf) ==
    listTokens(lines, starts, lastOf,
               [k \in 1..Len(starts) |->
                   blockTokenize(itemLines(lines, starts[k], lastOf[k]), 1, <<>>, TRUE)],
               listTight(lines, starts, lastOf))

listOf(lines, starts) ==
    listBodies(lines, starts,
               [k \in 1..Len(starts) |->
                   itemLast(lines, starts[k], starts[k] + 1, starts[k])])

\* rule `list`
listRule2(lines, i) ==
    IF ~listStart(lines[i]) \/ hrRule(lines, i).ok THEN NoMatch
    ELSE listOf(lines, listItems(lines, i, markerChar(DropWhileIn(lines[i], {" ", "\t"}))))

\* the first block rule that accepts line i, in the ruler's order
\* a rule's result, or the next rule's when it declines
orElse(r, other) == IF r.ok THEN r ELSE other

\* the first block rule that accepts line i, in the ruler's order
blockStep(lines, i, lastLF) ==
    orElse(tableRule2(lines, i),
    orElse(codeRule(lines, i),
    orElse(mathBlockRule(lines, i),
    orElse(fenceRule(lines, i, lastLF),
    orElse(hrRule(lines, i),
    orElse(listRule2(lines, i),
    orElse(htmlBlockRule(lines, i, lastLF),
           paragraphRule(lines, i))))))))

\* ParserBlock.tokenize from line i
blockNext(lines, lastLF, s) ==
    IF s.i > Len(lines) THEN s
    ELSE IF isEmptyLine(lines[s.i]) THEN [s EXCEPT !.i = s.i + 1]
    ELSE With(blockStep(lines, s.i, lastLF), LAMBDA r :
           [i |-> r.next, acc |-> s.acc \o r.toks])

\* ParserBlock.tokenize from line i
blockTokenize(lines, i, acc, lastLF) ==
    Iterate(LAMBDA s : blockNext(lines, lastLF, s), LAMBDA s : s.i > Len(lines),
            Len(lines) - i + 1,
            [i |-> i, acc |-> acc]).acc

---------------------------------------------------------------------------
(* taskListPlugin: the core rule task_list, run after `inline`             *)

\* /^\s*\[[ x]\]\s/.test(content)
isTaskMarker(t) ==
    Len(t) >= 4 /\ t[1] = "[" /\ t[2] \in {" ", "x"} /\ t[3] = "]" /\ t[4] \in White

hasTaskMarker(content) == isTaskMarker(DropWhileIn(content, White))

\* content.match(/^(\s*)\[([x ])\]\s+(.*)/): the groups check and content
firstLine(rest, eol) == IF eol = -1 THEN rest ELSE Slice(rest, 0, eol)

taskGroups(t, rest) ==
    [check |-> t[2], content |-> firstLine(rest, IndexOf(rest, <<"\n">>, 0))]

taskMatch(content) ==
    With(DropWhileIn(content, White), LAMBDA t :
      taskGroups(t, DropWhileIn(SliceFrom(t, 3), White)))

\* the scan of L122-127 from token i + 1 to the first bullet_list_close
taskItemsBefore(tokens, i, stop) ==
    \E j \in (i + 1)..(stop - 1) :
       tokens[j].type = "inline" /\ hasTaskMarker(tokens[j].content)

hasTaskItems(tokens, i) ==
    With({j \in (i + 1)..Len(tokens) : tokens[j].type = "bullet_list_close"}, LAMBDA closes :
      taskItemsBefore(tokens, i, IF closes = {} THEN Len(tokens) + 1 ELSE MinOf(closes)))

\* L343-345: md.use(taskListPlugin, { label: true })
mdUse == [label |-> TRUE]

\* L110-111: options = {}, const { label = false } = options
\* the destructuring of L111 with the default `label = true`
labelOf_on(o) == IF "label" \in DOMAIN o THEN o.label ELSE TRUE

labelOf(o) == IF "label" \in DOMAIN o THEN o.label ELSE FALSE

\* L163: the checkbox token's content without a label
checkboxHtml(isChecked) ==
    <<"<", "input", " ", "type", "=", "\"", "checkbox", "\"">>
    \o (IF isChecked THEN <<" ", "checked">> ELSE <<>>)
    \o <<" ", "disabled", ">">>

\* the checkbox token's content with `label: true`
labelHtml(isChecked, content) ==
    <<"<", "label", ">", "<", "input", " ", "type", "=", "\"", "checkbox", "\"">>
    \o (IF isChecked THEN <<" ", "checked">> ELSE <<>>)
    \o <<" ", "disabled", ">", " ">> \o content \o <<"<", "/", "label", ">">>

\* L157-170: token.children
taskChildren(label, isChecked, content) ==
    IF label
    THEN <<Child("html_inline", labelHtml(isChecked, content))>>
    ELSE <<Child("html_inline", checkboxHtml(isChecked)),
           Child("text", <<" ">> \o content)>>

\* the body of the loop of L116-173 for token i (counted from 1)
\* L150-168: the checkbox in the inline token, data-checked on its list item
setChecked(withBox, items, isChecked) ==
    IF items = {} THEN withBox
    ELSE With(MaxOf(items), LAMBDA li :
           [withBox EXCEPT ![li] =
              attrSet(withBox[li], "data-checked",
                      IF isChecked THEN <<"true">> ELSE <<"false">>)])

taskCheckbox(tokens, i, m, label) ==
    setChecked([tokens EXCEPT ![i] =
                  [tokens[i] EXCEPT !.content = m.content,
                                    !.children =
                                      taskChildren(label, m.check = "x", m.content)]],
               {j \in 1..(i - 1) : tokens[j].type = "list_item_open"},
               m.check = "x")

\* the body of the loop of L116-173 for token i (counted from 1)
taskListToken(tokens, i, inside, token, label) ==
    CASE token.type = "bullet_list_open" ->
           IF hasTaskItems(tokens, i)
           THEN [inside |-> TRUE,
                 tokens |-> [tokens EXCEPT ![i] =
                    attrSet(attrSet(token, "data-type", <<"taskList">>),
                            "class", <<"task-list">>)]]
           ELSE [inside |-> inside, tokens |-> tokens]
      [] token.type = "bullet_list_close" /\ inside ->
           [inside |-> FALSE, tokens |-> tokens]
      [] token.type = "list_item_open" /\ inside ->
           [inside |-> TRUE,
            tokens |-> [tokens EXCEPT ![i] =
               attrSet(attrSet(token, "data-type", <<"taskItem">>),
                       "class", <<"task-list-item">>)]]
      [] token.type = "inline" /\ inside /\ hasTaskMarker(token.content) ->
           [inside |-> TRUE,
            tokens |-> taskCheckbox(tokens, i, taskMatch(token.content), label)]
      [] OTHER -> [inside |-> inside, tokens |-> tokens]

taskListStep(tokens, i, inside, label) ==
    taskListToken(tokens, i, inside, tokens[i], label)

taskListNext(s) ==
    IF s.i > Len(s.tokens) THEN s
    ELSE With(taskListStep(s.tokens, s.i, s.inside, s.label), LAMBDA r :
           [i |-> s.i + 1, tokens |-> r.tokens, inside |-> r.inside,
            label |-> s.label])

\* the loop of L116-173 from token i: the tokens and the flag it ends with
taskListRun(toks, i, inside, label) ==
    Iterate(LAMBDA s : taskListNext(s), LAMBDA s : s.i > Len(s.tokens),
            Len(toks) - i + 1,
            [i |-> i, tokens |-> toks, inside |-> inside, label |-> label])

\* the rule as the module registers it
taskListRule(toks, i, inside) == taskListRun(toks, i, inside, labelOf(mdUse)).tokens

---------------------------------------------------------------------------
(* markdown-it: the renderer, and md.render                                *)

renderAttrs(attrs) ==
    Flatten([k \in 1..Len(attrs) |->
        <<" ">> \o escapeHtml(<<attrs[k].n>>) \o <<"=", "\"">>
        \o escapeHtml(attrs[k].v) \o <<"\"">>])

\* Renderer.renderToken for the block token idx
\* whether a line feed follows the tag of an opening block token
needLf(tokens, idx, token) ==
    IF token.nesting = 1 /\ idx + 1 <= Len(tokens)
    THEN ~ \/ tokens[idx + 1].type = "inline"
           \/ tokens[idx + 1].hidden
           \/ tokens[idx + 1].nesting = -1 /\ tokens[idx + 1].tag = token.tag
    ELSE TRUE

renderTag(tokens, idx, token) ==
    IF token.hidden THEN <<>>
    ELSE (IF token.nesting # -1 /\ idx > 1 /\ tokens[idx - 1].hidden
          THEN <<"\n">> ELSE <<>>)
         \o <<"<">> \o (IF token.nesting = -1 THEN <<"/">> ELSE <<>>)
         \o <<token.tag>> \o renderAttrs(token.attrs)
         \o (IF token.nesting = 0 THEN <<" ", "/">> ELSE <<>>)
         \o (IF needLf(tokens, idx, token) THEN <<">", "\n">> ELSE <<">">>)

\* Renderer.renderToken for the block token idx
renderToken(tokens, idx) == renderTag(tokens, idx, tokens[idx])

\* md.renderer.rules.code_block
renderCodeBlock(token) ==
    <<"<", "pre", ">", "<", "code", ">">> \o heEncode(token.content, FALSE)
    \o <<"<", "/", "code", ">", "<", "/", "pre", ">">>

\* md.renderer.rules.fence
renderFence(token) ==
    <<"<", "pre", ">", "<", "code">>
    \o (IF token.info # <<>>
        THEN <<" ", "class", "=", "\"", "language-">> \o Trim(token.info) \o <<"\"">>
        ELSE <<>>)
    \o <<">">> \o heEncode(token.content, FALSE)
    \o <<"<", "/", "code", ">", "<", "/", "pre", ">">>

\* Renderer.render
renderTokens(tokens) ==
    Flatten([idx \in 1..Len(tokens) |->
        CASE tokens[idx].type = "inline" -> renderInline(tokens[idx].children)
          [] tokens[idx].type = "math_block" -> renderMathBlock(tokens[idx].content)
          [] tokens[idx].type = "code_block" -> renderCodeBlock(tokens[idx])
          [] tokens[idx].type = "fence" -> renderFence(tokens[idx])
          [] tokens[idx].type = "html_block" -> tokens[idx].content
          [] OTHER -> renderToken(tokens, idx)])

\* md.parse(src) up to the core rule `inline`
parseBlocks(src) ==
    blockTokenize(srcLines(src), 1, <<>>, src # <<>> /\ src[Len(src)] = "\n")

\* md.render(src)
mdRender(src) ==
    With(parseBlocks(src), LAMBDA tokens :
    With(taskListRule(tokens, 1, FALSE), LAMBDA listed : renderTokens(listed)))

---------------------------------------------------------------------------
(* markdownToHtml: the image pre-pass, the render and the single-tag wrap  *)

\* the regular expression of L629 matched at position p (0-based):
\* ok, the groups alt, src and title, and the position after the match
NoImage(p) == [ok |-> FALSE, next |-> p + 1, alt |-> <<>>, src |-> <<>>, title |-> <<>>]

\* group 2 and group 3: the source, and the title when the body ends in one
imageGroups(s, p, rb, rp, body, q, hasTitle) ==
    [ok |-> TRUE, next |-> rp + 1, alt |-> Slice(s, p + 2, rb),
     src |-> IF hasTitle THEN DropEndWhileIn(SubSeq(body, 1, q - 1), White) ELSE body,
     title |-> IF hasTitle THEN SubSeq(body, q + 1, Len(body) - 1) ELSE <<>>]

imageTitle(s, p, rb, rp, body, quotes, q) ==
    imageGroups(s, p, rb, rp, body, q,
      /\ Cardinality(quotes) >= 2
      /\ body[Len(body)] = "\""
      /\ q >= 2 /\ body[q - 1] \in White
      /\ DropEndWhileIn(SubSeq(body, 1, q - 1), White) # <<>>)

imageBody(s, p, rb, rp, body) ==
    With({k \in 1..Len(body) : body[k] = "\""}, LAMBDA quotes :
      imageTitle(s, p, rb, rp, body, quotes, MaxOf(quotes \ {Len(body)})))

imageClose(s, p, rb, rp) ==
    IF rp # -1 /\ rp > rb + 2
    THEN imageBody(s, p, rb, rp, Slice(s, rb + 2, rp))
    ELSE NoImage(p)

imageOpen(s, p, rb) ==
    IF rb # -1 /\ rb + 1 < Len(s) /\ s[rb + 2] = "("
    THEN imageClose(s, p, rb, IndexOf(s, <<")">>, rb + 2))
    ELSE NoImage(p)

imageMatch(s, p) ==
    IF StartsWithAt(s, <<"!", "[">>, p)
    THEN imageOpen(s, p, IndexOf(s, <<"]">>, p + 2))
    ELSE NoImage(p)

\* the replacement callback of L630-639
imageReplacement(s, p, m) ==
    IF StartsWithAt(m.src, <<"file", ":", "/", "/">>, 0)
    THEN <<"<", "img", " ", "src", "=", "\"">> \o Trim(m.src)
         \o <<"\"", " ", "alt", "=", "\"">> \o m.alt \o <<"\"">>
         \o (IF m.title # <<>>
             THEN <<" ", "title", "=", "\"">> \o m.title \o <<"\"">> ELSE <<>>)
         \o <<" ", "/", ">">>
    ELSE Slice(s, p, m.next)

\* markdown.replace(/!\[...\]\(...\)/g, ...)
imageNext(s, st) ==
    IF st.p >= Len(s) THEN st
    ELSE With(imageMatch(s, st.p), LAMBDA m :
           IF m.ok THEN [p |-> m.next, acc |-> st.acc \o imageReplacement(s, st.p, m)]
           ELSE [p |-> st.p + 1, acc |-> Append(st.acc, s[st.p + 1])])

imagePrepass(s, p, acc) ==
    Iterate(LAMBDA st : imageNext(s, st), LAMBDA st : st.p >= Len(s),
            Len(s) - p, [p |-> p, acc |-> acc]).acc

\* trimmedMarkdown.match(/^<([a-zA-Z][^>\s]*)\/?>$/): whether it matches, and
\* group 1 (greedy: a `/` before the `>` belongs to the group)
singleTagInner(t, n, inner) ==
    [ok |-> /\ n >= 3
            /\ t[1] = "<" /\ t[n] = ">"
            /\ IsAlpha(t[2])
            /\ \A k \in 1..Len(inner) : inner[k] \notin White \cup {">"},
     tagName |-> inner]

singleTagMatch(trimmedMarkdown) ==
    singleTagInner(trimmedMarkdown, Len(trimmedMarkdown),
                   SubSeq(trimmedMarkdown, 2, Len(trimmedMarkdown) - 1))

\* L643-652
wrapIf(rendered, trimmedMarkdown, m) ==
    IF Trim(rendered) = trimmedMarkdown /\ m.ok /\ Concat(m.tagName) \notin htmlTags
    THEN <<"<", "p", ">">> \o rendered \o <<"<", "/", "p", ">">>
    ELSE rendered

wrapSingleTag(processedMarkdown, rendered) ==
    With(Trim(processedMarkdown), LAMBDA trimmedMarkdown :
      wrapIf(rendered, trimmedMarkdown, singleTagMatch(trimmedMarkdown)))

\* markdownToHtml for a non-empty string, L625-653
markdownToHtml(markdown) ==
    With(imagePrepass(markdown, 0, <<>>), LAMBDA processedMarkdown :
      wrapSingleTag(processedMarkdown, mdRender(processedMarkdown)))

\* htmlToMarkdown for a non-empty string, L603-607
htmlToMarkdown(input) == heDecode(Trim(turndown(escapeCustomTags(input))))

---------------------------------------------------------------------------
(* The calls as state machines.  pc: "call" on entry, "guard" while the    *)
(* parser delivers its callbacks, "turndown", "decode", "render", "wrap",  *)
(* "catch" inside the catch block, "done" after the return.                *)

Str(val) == [type |-> "string", val |-> val]

\* !x || typeof x !== 'string'
rejects(a) == a.type # "string" \/ a.val = <<>>

CatchValue_partial(partial) == partial
\* the value of the catch blocks, L608-611 and L654-657
CatchValue(partial) == <<>>

\* the statements inside the try blocks
InTry == {"guard", "turndown", "decode", "render", "wrap"}

\* L599-601, L621-623
EarlyReturn ==
    /\ pc = "call"
    /\ rejects(arg)
    /\ out' = <<>>
    /\ pc' = "done"
    /\ UNCHANGED <<fn, arg, html, events, result, currentPos, processedPositions,
                   mid, threw, trail, plan>>
    /\ UNCHANGED mdVars

\* L604 and L13-17, L69: escapeCustomTags is entered and the parser is fed
EnterGuard ==
    /\ pc = "call"
    /\ fn \in {"htmlToMarkdown", "escapeCustomTags"}
    /\ ~rejects(arg)
    /\ html' = arg.val
    /\ events' = ParserEvents(arg.val)
    /\ result' = GuardStart.result
    /\ currentPos' = GuardStart.currentPos
    /\ processedPositions' = GuardStart.processedPositions
    /\ pc' = "guard"
    /\ UNCHANGED <<fn, arg, mid, out, threw, trail, plan>>
    /\ UNCHANGED mdVars

guardState == [result |-> result, currentPos |-> currentPos,
               processedPositions |-> processedPositions]

\* L18-35
OnOpenTagName ==
    /\ pc = "guard"
    /\ events # <<>>
    /\ Head(events).kind = "open"
    /\ LET g == onopentagname(html, guardState, Head(events))
       IN  /\ result' = g.result
           /\ currentPos' = g.currentPos
           /\ processedPositions' = g.processedPositions
    /\ events' = Tail(events)
    /\ UNCHANGED <<fn, arg, pc, html, mid, out, threw, trail, plan>>
    /\ UNCHANGED mdVars

\* L37-63
OnCloseTag ==
    /\ pc = "guard"
    /\ events # <<>>
    /\ Head(events).kind = "close"
    /\ LET g == onclosetag(html, guardState, Head(events))
       IN  /\ result' = g.result
           /\ currentPos' = g.currentPos
           /\ processedPositions' = g.processedPositions
    /\ events' = Tail(events)
    /\ UNCHANGED <<fn, arg, pc, html, mid, out, threw, trail, plan>>
    /\ UNCHANGED mdVars

\* L65-67 and the return of L72
OnEnd ==
    /\ pc = "guard"
    /\ events = <<>>
    /\ result' = onend(html, guardState).result
    /\ IF fn = "escapeCustomTags"
       THEN out' = result' /\ pc' = "done"
       ELSE out' = out /\ pc' = "turndown"
    /\ UNCHANGED <<fn, arg, html, events, currentPos, processedPositions, mid,
                   threw, trail, plan>>
    /\ UNCHANGED mdVars

\* L605
Turndown ==
    /\ pc = "turndown"
    /\ mid' = With(turndown(result), LAMBDA markdown : Trim(markdown))
    /\ pc' = "decode"
    /\ UNCHANGED <<fn, arg, html, events, result, currentPos, processedPositions,
                   out, threw, trail, plan>>
    /\ UNCHANGED mdVars

\* L606-607
Decode ==
    /\ pc = "decode"
    /\ out' = heDecode(mid)
    /\ pc' = "done"
    /\ UNCHANGED <<fn, arg, html, events, result, currentPos, processedPositions,
                   mid, threw, trail, plan>>
    /\ UNCHANGED mdVars

\* L628-640
ImagePrepass ==
    /\ pc = "call"
    /\ fn = "markdownToHtml"
    /\ ~rejects(arg)
    /\ mid' = imagePrepass(arg.val, 0, <<>>)
    /\ pc' = "render"
    /\ UNCHANGED <<fn, arg, html, events, result, currentPos, processedPositions,
                   out, threw, trail, plan>>
    /\ UNCHANGED mdVars

\* the values that inside_task_list takes while the rule runs on src
insideValues(src) ==
    With(taskListRule(parseBlocks(src), 1, FALSE), LAMBDA listed :
      {FALSE} \cup {hasAttribute(listed[k].attrs, "data-type") :
                      k \in {j \in 1..Len(listed) :
                                listed[j].type = "bullet_list_open"}})

\* md.render with inside_task_list declared outside the rule: the flag starts
\* at the value the last run left
Render_shared ==
    /\ pc = "render"
    /\ LET run == With(parseBlocks(mid), LAMBDA parsed :
                     taskListRun(parsed, 1, inside_task_list, labelOf(options)))
       IN  /\ state' = [tokens |-> run.tokens]
           /\ inside_task_list' = run.inside
    /\ html' = renderTokens(state'.tokens)
    /\ pc' = "wrap"
    /\ UNCHANGED <<fn, arg, events, result, currentPos, processedPositions, mid,
                   out, threw, trail, plan, options>>

\* L642: md.render parses, runs task_list with its flag set to false (L114)
\* and renders
Render ==
    /\ pc = "render"
    /\ LET run == With(parseBlocks(mid), LAMBDA parsed :
                     taskListRun(parsed, 1, FALSE, labelOf(options)))
       IN  /\ state' = [tokens |-> run.tokens]
           /\ inside_task_list' = run.inside
    /\ html' = renderTokens(state'.tokens)
    /\ pc' = "wrap"
    /\ UNCHANGED <<fn, arg, events, result, currentPos, processedPositions, mid,
                   out, threw, trail, plan, options>>

\* L643-653
Wrap ==
    /\ pc = "wrap"
    /\ out' = wrapSingleTag(mid, html)
    /\ pc' = "done"
    /\ UNCHANGED <<fn, arg, html, events, result, currentPos, processedPositions,
                   mid, threw, trail, plan>>
    /\ UNCHANGED mdVars

\* a statement of the try block throws; a throw out of md.render leaves the
\* flag of task_list at a value it had during the run
Throw ==
    /\ pc \in InTry
    /\ threw' = TRUE
    /\ pc' = "catch"
    /\ IF pc = "render"
       THEN inside_task_list' \in insideValues(mid)
       ELSE inside_task_list' = inside_task_list
    /\ UNCHANGED <<fn, arg, html, events, result, currentPos, processedPositions,
                   mid, out, trail, plan, options, state>>

\* L608-611, L654-657
Catch ==
    /\ pc = "catch"
    /\ out' = CatchValue(IF fn = "htmlToMarkdown" THEN result \o mid ELSE mid \o html)
    /\ pc' = "done"
    /\ UNCHANGED <<fn, arg, html, events, result, currentPos, processedPositions,
                   mid, threw, trail, plan>>
    /\ UNCHANGED mdVars

\* the math container inside rendered HTML: from its `<div` or `<span` to
\* the end of its close tag
mathContainer(h) ==
    LET tag == IF Contains(h, <<"<", "div">>) THEN "div" ELSE "span"
        from == IndexOf(h, <<"<", tag>>, 0)
        to == IndexOf(h, <<"<", "/", tag, ">">>, 0)
    IN  IF from = -1 \/ to = -1 THEN h ELSE Slice(h, from, to + 4)

\* the caller goes on to the next call of its plan: of the next function on
\* the returned value, or (part "new") on an argument of its own
Chain ==
    /\ pc = "done"
    /\ plan # <<>>
    /\ fn' = Head(plan).fn
    /\ arg' = IF Head(plan).part = "new" THEN Head(plan).arg
              ELSE Str(IF Head(plan).part = "math" THEN mathContainer(out) ELSE out)
    /\ plan' = Tail(plan)
    /\ trail' = Append(trail, out)
    /\ pc' = "call"
    /\ html' = <<>> /\ events' = <<>> /\ result' = <<>> /\ currentPos' = 0
    /\ processedPositions' = {} /\ mid' = <<>> /\ out' = <<>>
    /\ threw' = FALSE
    /\ UNCHANGED mdVars

Then(f) == [fn |-> f, part |-> "all"]

\* a call of f on an argument that does not come from the call before
New(f, a) == [fn |-> f, part |-> "new", arg |-> a]

\* the state at the first call, f on a, of a module that was loaded with
\* md.use(taskListPlugin, o); the calls of p follow
CalledWith(f, a, p, o) ==
    /\ fn = f /\ arg = a /\ pc = "call" /\ plan = p
    /\ html = <<>> /\ events = <<>> /\ result = <<>> /\ currentPos = 0
    /\ processedPositions = {} /\ mid = <<>> /\ out = <<>> /\ threw = FALSE
    /\ trail = <<a.val>>
    /\ options = o /\ state = [tokens |-> <<>>] /\ inside_task_list = FALSE

Called(f, a, p) == CalledWith(f, a, p, mdUse)

\* the strings of 1..n segments
RECURSIVE SegStrings(_, _)
SegStrings(segs, n) ==
    IF n = 0 THEN {}
    ELSE {Flatten(f) : f \in [1..n -> segs]} \cup SegStrings(segs, n - 1)

---------------------------------------------------------------------------
(* The two public functions on arbitrary arguments                         *)

MaxWs == 2
MaxFacadeSegs == 2

WsStrings == SegStrings({<<" ">>, <<"\n">>, <<"\t">>, <<"\f">>}, MaxWs)

FacadeSegs ==
    {<<"<", "foo", ">">>, <<"<", "/", "foo", ">">>,
     <<"<", "script", ">">>, <<"<", "/", "script", ">">>,
     <<"<", "p", ">">>, <<"bar">>}

FacadeArgs ==
    {[type |-> t, val |-> <<>>] : t \in {"null", "undefined", "number", "string"}}
    \cup {Str(v) : v \in WsStrings \cup SegStrings(FacadeSegs, MaxFacadeSegs)}

Init ==
    \E f \in {"htmlToMarkdown", "markdownToHtml"}, a \in FacadeArgs :
        Called(f, a, <<>>)

Next ==
    \/ EarlyReturn
    \/ EnterGuard \/ OnOpenTagName \/ OnCloseTag \/ OnEnd \/ Turndown \/ Decode
    \/ ImagePrepass \/ Render \/ Wrap
    \/ Throw \/ Catch

Spec == Init /\ [][Next]_vars

\* null, undefined, a non-string, the empty string or only whitespace
blankArg(a) == a.type # "string" \/ Trim(a.val) = <<>>

\* C1 (as claimed): a call of either function on the empty string, null,
\* undefined, a non-string or a whitespace-only string returns the empty
\* string.
C1_BlankGivesEmpty == (pc = "done" /\ blankArg(arg)) => out = <<>>

\* C2: once a statement of the try block has thrown, the exception is in the
\* catch block or the call has returned, and what it returned is the empty
\* string, never what had been computed before the throw.
C2_ThrowGivesEmpty ==
    threw => /\ pc \in {"catch", "done"}
             /\ pc = "done" => out = <<>>

C2_Witness == threw /\ pc = "done" /\ mid # <<>> /\ result # <<>> /\ out = <<>>

\* the names of the custom open tags that the parser reports in h
customOpens(h) ==
    LET evs == ParserEvents(h)
    IN  {evs[k].name : k \in {j \in 1..Len(evs) :
                                evs[j].kind = "open" /\ evs[j].name \notin htmlTags}}

---------------------------------------------------------------------------
(* escapeCustomTags on strings of tags and text                            *)

MaxSegs == 3

GuardSegs ==
    {<<"<", "p", ">">>, <<"<", "/", "p", ">">>, <<"<", "li", ">">>,
     <<"<", "br", ">">>, <<"a">>,
     <<"<", "foo", " ", "k", "=", "v", ">">>, <<"<", "/", "foo", ">">>}

InitGuard ==
    \E v \in SegStrings(GuardSegs, MaxSegs) :
        Called("escapeCustomTags", Str(v), <<>>)

NextGuard == EnterGuard \/ OnOpenTagName \/ OnCloseTag \/ OnEnd

SpecGuard == InitGuard /\ [][NextGuard]_vars

\* the names of the tags of h, as written: the atom after `<` or `</`
tagNames(h) ==
    {h[k + 1] : k \in {j \in 1..(Len(h) - 1) : h[j] = "<" /\ h[j + 1] # "/"}}
    \cup {h[k + 2] : k \in {j \in 1..(Len(h) - 2) : h[j] = "<" /\ h[j + 1] = "/"}}

\* C4 (as claimed): when every tag name of the input is in the standard
\* vocabulary, what escapeCustomTags returns is the input.
C4_StandardTagsUnchanged ==
    (fn = "escapeCustomTags" /\ pc = "done" /\ tagNames(arg.val) \subseteq htmlTags)
        => out = arg.val

\* h with the `<` and the `>` of every tag named foo replaced by their
\* entities, and the rest as it is
RECURSIVE escapedTags(_, _)
escapedTags(h, inTag) ==
    IF h = <<>> THEN <<>>
    ELSE IF ~inTag /\ Len(h) >= 2 /\ h[1] = "<"
            /\ (h[2] = "foo" \/ (Len(h) >= 3 /\ h[2] = "/" /\ h[3] = "foo"))
         THEN lt \o escapedTags(Tail(h), TRUE)
    ELSE IF inTag /\ h[1] = ">" THEN gt \o escapedTags(Tail(h), FALSE)
    ELSE <<h[1]>> \o escapedTags(Tail(h), inTag)

\* C5 (as claimed): when the tags of the input are custom tags only, what
\* escapeCustomTags returns is the input with the `<` and the `>` of each of
\* them, attributes included, replaced by `&lt;` and `&gt;` and the text in
\* between unchanged.
C5_CustomTagsEscaped ==
    (fn = "escapeCustomTags" /\ pc = "done" /\ tagNames(arg.val) = {"foo"})
        => out = escapedTags(arg.val, FALSE)

---------------------------------------------------------------------------
(* Round trips: the caller passes what one function returns to the other   *)

NextHtml == EnterGuard \/ OnOpenTagName \/ OnCloseTag \/ OnEnd \/ Turndown \/ Decode

NextRound == NextHtml \/ ImagePrepass \/ Render \/ Wrap \/ Chain

\* R: markdownToHtml, then htmlToMarkdown
RoundTrip == <<Then("htmlToMarkdown")>>

\* the last call of the plan has returned
Returned == pc = "done" /\ plan = <<>>

MaxTextSegs == 4

TextSegs == {<<"a">>, <<"&">>, <<"amp", ";">>, <<"lt", ";">>}

InitText ==
    \E x \in SegStrings(TextSegs, MaxTextSegs) :
        Called("markdownToHtml", Str(x),
               RoundTrip \o <<Then("markdownToHtml")>> \o RoundTrip)

SpecText == InitText /\ [][NextRound]_vars

\* C6 (as claimed): R(R(x)) = R(x).  The trail holds x, markdownToHtml(x),
\* R(x) and markdownToHtml(R(x)); the last call returns R(R(x)).
C6_RoundTripFixedPoint == (Returned /\ Len(trail) = 4) => out = trail[3]

MaxLatexSegs == 2

LatexSegs ==
    {<<"a">>, <<"\\">>, <<"&">>, <<"lt", ";">>, <<"<">>, <<"\"">>}

InitMath ==
    \E c \in SegStrings(LatexSegs, MaxLatexSegs),
       fence \in {<<"$", "$">>, <<"$">>} :
        Called("markdownToHtml", Str(fence \o c \o fence),
               <<[fn |-> "htmlToMarkdown", part |-> "math"]>>)

SpecMath == InitMath /\ [][NextRound]_vars

\* the value of the data-latex attribute as written in a math container
writtenLatex(container) ==
    Slice(container,
          IndexOf(container, <<"data-latex", "=", "\"">>, 0) + 3,
          IndexOf(container, <<"\"", " ", "data-type">>, 0))

\* C7 (as claimed): the container rendered for $$c$$ or $c$ holds c in its
\* data-latex attribute, entity-encoded, and htmlToMarkdown of the container
\* returns the formula as it was written.
C7_MathRoundTrip ==
    (Returned /\ Len(trail) = 2) =>
        /\ Contains(trail[2], arg.val)
        /\ \E fence \in {<<"$", "$">>, <<"$">>} :
              trail[1] = fence \o heDecode(writtenLatex(arg.val)) \o fence
        /\ out = trail[1]

MaxItems == 2

ItemTexts == {<<"abcd">>, <<"ef", " ", "gh">>}

TaskItems ==
    {<<"-", " ", "[", c, "]", " ">> \o t : c \in {" ", "x"}, t \in ItemTexts}

RECURSIVE TaskLists(_)
TaskLists(n) ==
    IF n = 1 THEN TaskItems
    ELSE TaskLists(n - 1)
         \cup {m \o <<"\n", "\n">> \o i : m \in TaskLists(n - 1), i \in TaskItems}

InitTask ==
    \E m \in TaskLists(MaxItems) : Called("markdownToHtml", Str(m), RoundTrip)

SpecTask == InitTask /\ [][NextRound]_vars

\* C8: a task list of items joined by blank lines comes back from the round
\* trip as it was written: the same items in the same order, each with its
\* checked state and its text.
C8_TaskListRoundTrip == (Returned /\ Len(trail) = 2) => out = trail[1]

C8_Witness ==
    /\ Returned
    /\ trail[1] = <<"-", " ", "[", " ", "]", " ", "abcd", "\n", "\n",
                    "-", " ", "[", "x", "]", " ", "ef", " ", "gh">>
    /\ Contains(trail[2], <<"data-checked", "=", "\"", "true", "\"">>)
    /\ Contains(trail[2], <<"data-checked", "=", "\"", "false", "\"">>)
    /\ out = trail[1]

MaxCellSegs == 2

CellSegs == {<<"\\", "sum">>, <<"\\", "|">>, <<"x">>}

\* a table of one body row whose first cell is the formula $L$
FormulaTable(L) ==
    <<"|", " ", "f", " ", "|", " ", "g", " ", "|", "\n",
      "|", " ", "-", "-", "-", " ", "|", " ", "-", "-", "-", " ", "|", "\n",
      "|", " ", "$">> \o L \o <<"$", " ", "|", " ", "h", " ", "|">>

InitTable ==
    \E L \in {c \in SegStrings(CellSegs, MaxCellSegs) : Contains(c, <<"\\">>)} :
        Called("markdownToHtml", Str(FormulaTable(L)), RoundTrip)

SpecTable == InitTable /\ [][NextRound]_vars

\* the formula of the first body cell of a table as FormulaTable writes it
formulaOf(table) == Slice(table, 26, Len(table) - 6)

\* C9 (as claimed): the round trip of a table with the cell $L$ holds $L$,
\* its backslashes as they were written.
C9_CellLatexKept ==
    (Returned /\ Len(trail) = 2) => Contains(out, formulaOf(trail[1]))

---------------------------------------------------------------------------
(* htmlToMarkdown on a table row with a colspan attribute                  *)

MaxColspan == 3

RECURSIVE Numerals(_)
Numerals(n) == IF n = 0 THEN {} ELSE {<<ToString(n)>>} \cup Numerals(n - 1)

\* colspan values: missing, empty, not a number, below 1, and 1..MaxColspan
ColspanValues ==
    {Null, <<>>, <<"abc">>, <<"0">>, <<"-", "1">>} \cup Numerals(MaxColspan)

colspanAttr(v) ==
    IF v = Null THEN <<>> ELSE <<" ", "colspan", "=", "\"">> \o v \o <<"\"">>

\* a table of one row; the cell at position at (0 or 1) carries colspan v
ColspanTable(v, at) ==
    <<"<", "table", ">", "<", "tr", ">">>
    \o <<"<", "td">> \o (IF at = 0 THEN colspanAttr(v) ELSE <<>>) \o <<">", "abc">>
    \o <<"<", "/", "td", ">">>
    \o <<"<", "td">> \o (IF at = 1 THEN colspanAttr(v) ELSE <<>>) \o <<">", "de">>
    \o <<"<", "/", "td", ">", "<", "/", "tr", ">", "<", "/", "table", ">">>

InitColspan ==
    \E v \in ColspanValues, at \in {0, 1} :
        /\ Called("htmlToMarkdown", Str(ColspanTable(v, at)), <<>>)

SpecColspan == InitColspan /\ [][NextHtml]_vars

\* the number a colspan value stands for: n for the numeral of n >= 1, and 1
\* for every other value
spanOf(v) ==
    IF \E n \in 1..MaxColspan : v = <<ToString(n)>>
    THEN CHOOSE n \in 1..MaxColspan : v = <<ToString(n)>>
    ELSE 1

emptyCells(n) == Repeat(<<" ", " ", " ", "|">>, n)

\* the row that the two cells make when the cell at position at spans n
spannedRow(n, at) ==
    <<"|", " ", "abc", " ", "|">> \o (IF at = 0 THEN emptyCells(n - 1) ELSE <<>>)
    \o <<" ", "de", " ", " ", "|">> \o (IF at = 1 THEN emptyCells(n - 1) ELSE <<>>)

---------------------------------------------------------------------------
(* Sequences of calls on the module-level md and turndownService           *)

MaxCalls == 2

CallArgs ==
    {Str(<<>>), Str(<<"-", " ", "[", "x", "]", " ", "a">>), Str(<<"-", " ", "a">>),
     Str(<<"<", "li", ">", "a">>)}

Calls == {New(f, a) : f \in {"htmlToMarkdown", "markdownToHtml"}, a \in CallArgs}

RECURSIVE CallPlans(_)
CallPlans(n) ==
    IF n = 0 THEN {<<>>}
    ELSE CallPlans(n - 1)
         \cup {Append(p, c) : p \in {q \in CallPlans(n - 1) : Len(q) = n - 1},
                              c \in Calls}

InitCalls ==
    \E c \in Calls, p \in CallPlans(MaxCalls - 1) : Called(c.fn, c.arg, p)

NextCalls == Next \/ Chain

SpecCalls == InitCalls /\ [][NextCalls]_vars

\* what a call of f on a returns when nothing throws
Returns(f, a) ==
    IF rejects(a) THEN <<>>
    ELSE IF f = "markdownToHtml" THEN markdownToHtml(a.val)
    ELSE htmlToMarkdown(a.val)

---------------------------------------------------------------------------
(* markdownToHtml on lists: the tokens after the task-list pass            *)

NextMarkdown == ImagePrepass \/ Render \/ Wrap

MaxListLines == 3

ListLines ==
    {<<"-", " ", "a">>,
     <<"-", " ", "[", "x", "]", " ", "b">>,
     <<"-", " ", "[", " ", "]", " ", "b">>,
     <<" ", " ", "-", " ", "c">>,
     <<" ", " ", "-", " ", "[", "x", "]", " ", "c">>,
     <<"[", "x", "]", " ", "d">>,
     <<>>}

\* the documents of 1..n lines
RECURSIVE Documents(_, _)
Documents(lines, n) ==
    IF n = 1 THEN lines
    ELSE Documents(lines, n - 1)
         \cup {d \o <<"\n">> \o l : d \in Documents(lines, n - 1), l \in lines}

InitList ==
    \E d \in Documents(ListLines, MaxListLines) \ {<<>>} :
        Called("markdownToHtml", Str(d), <<>>)

SpecList == InitList /\ [][NextMarkdown]_vars

\* the bullet_list_close that matches the bullet_list_open at k
ownClose(toks, k) ==
    MinOf({j \in (k + 1)..Len(toks) :
             /\ toks[j].type = "bullet_list_close"
             /\ Cardinality({m \in (k + 1)..(j - 1) : toks[m].type = "bullet_list_open"})
                  = Cardinality({m \in (k + 1)..(j - 1) :
                                   toks[m].type = "bullet_list_close"})})

\* token j lies inside a bullet list
inBulletList(toks, j) ==
    \E k \in 1..(j - 1) : toks[k].type = "bullet_list_open" /\ ownClose(toks, k) > j

\* the tokens of the document before the task-list pass
beforePass == parseBlocks(mid)

\* C12 (as claimed): after the pass a bullet_list_open carries
\* data-type="taskList" exactly when an inline token between it and its own
\* bullet_list_close matches the task marker pattern, and an inline token
\* outside every bullet list is as it was before the pass.
C12_ListMarkedIffTaskItem ==
    pc = "wrap" =>
        \A k \in 1..Len(state.tokens) :
            /\ state.tokens[k].type = "bullet_list_open" =>
                  (getAttribute(state.tokens[k].attrs, "data-type") = <<"taskList">>
                   <=> \E j \in (k + 1)..(ownClose(beforePass, k) - 1) :
                          /\ beforePass[j].type = "inline"
                          /\ hasTaskMarker(beforePass[j].content))
            /\ (state.tokens[k].type = "inline" /\ ~inBulletList(state.tokens, k)) =>
                  state.tokens[k] = beforePass[k]

\* the items of the document: the list_item_open tokens that a paragraph follows
itemOpens(toks) ==
    {k \in 1..(Len(toks) - 2) :
        toks[k].type = "list_item_open" /\ toks[k + 1].type = "paragraph_open"}

\* C13 (as claimed): an item whose inline content does not match the task
\* pattern is left as it was: no attribute on its list_item_open, and its
\* inline token unchanged.
C13_PlainItemUntouched ==
    pc = "wrap" =>
        \A k \in itemOpens(beforePass) :
            ~hasTaskMarker(beforePass[k + 2].content) =>
                /\ state.tokens[k].attrs = <<>>
                /\ state.tokens[k + 2] = beforePass[k + 2]

---------------------------------------------------------------------------
(* markdownToHtml on one flat list: which items become tasks               *)

MaxItemLines == 2

ItemLines ==
    {<<"-", " ", "a">>,
     <<"-", " ", "[", "x", "]", " ", "b">>,
     <<"-", " ", "[", "X", "]", " ", "b">>,
     <<"-", " ", "[", " ", "]", " ", "b">>,
     <<"-", " ", "[", "x", "]", "b">>,
     <<"-", " ", "[", "x", "]", " ", " ", "b">>,
     <<"-", " ", "[", "y", "]", " ", "b">>}

InitItems ==
    \E d \in Documents(ItemLines, MaxItemLines) :
        Called("markdownToHtml", Str(d), <<>>)

SpecItems == InitItems /\ [][NextMarkdown]_vars

\* the pattern as claimed: optional whitespace, `[`, one of x, X and space,
\* `]`, one or more spaces, the remaining text
claimedTask(t) ==
    Len(t) >= 4 /\ t[1] = "[" /\ t[2] \in {"x", "X", " "} /\ t[3] = "]" /\ t[4] = " "

\* C14 (as claimed): an item of a bullet list is made a task (its
\* list_item_open gets data-checked) exactly when its inline content matches
\* the pattern, and data-checked is "true" for x and for X, "false" for a
\* space.
C14_TaskPattern ==
    pc = "wrap" =>
        \A k \in itemOpens(beforePass) :
            LET t == DropWhileIn(beforePass[k + 2].content, White)
                checked == getAttribute(state.tokens[k].attrs, "data-checked")
            IN  IF claimedTask(t)
                THEN checked = IF t[2] = " " THEN <<"false">> ELSE <<"true">>
                ELSE checked = Null

---------------------------------------------------------------------------
(* markdownToHtml on text with dollar signs                                *)

MaxDollarSegs == 5

DollarSegs == {<<"$">>, <<"a">>, <<"\n">>, <<" ">>}

InitDollar ==
    \E d \in SegStrings(DollarSegs, MaxDollarSegs) :
        Called("markdownToHtml", Str(d), <<>>)

SpecDollar == InitDollar /\ [][NextMarkdown]_vars

\* the inline tokens of the document
inlineTokens(toks) == {toks[k] : k \in {j \in 1..Len(toks) : toks[j].type = "inline"}}

\* the children of a type in the inline tokens of the document
childrenOf(toks, type) ==
    UNION {{t.children[k] : k \in {j \in 1..Len(t.children) :
                                      t.children[j].type = type}} :
           t \in inlineTokens(toks)}

\* C15 (as claimed): when the document begins with `$$` and no `$$` follows,
\* no math_block token is pushed and the text is rendered as a paragraph
\* that holds no math container.
C15_UnclosedBlockIsText ==
    (pc = "wrap" /\ StartsWithAt(mid, <<"$", "$">>, 0)
                 /\ IndexOf(mid, <<"$", "$">>, 2) = -1) =>
        /\ \A k \in 1..Len(state.tokens) : state.tokens[k].type # "math_block"
        /\ StartsWithAt(html, <<"<", "p", ">">>, 0)
        /\ ~Contains(html, <<"data-latex">>)

\* the rule declines at position p of src
declinesAt(src, p) == mathInlineRule(src, p) = [next |-> -1, toks |-> <<>>]

\* no `$` follows position p of src, or a newline comes before the next one
unclosedAt(src, p) ==
    With(IndexOf(src, <<"$">>, p + 1), LAMBDA close :
      close = -1 \/ Contains(Slice(src, p + 1, close), <<"\n">>))

\* C16: at a `$` that no `$` follows on the same line the rule math_inline
\* declines, pushing nothing and leaving the position, and the `$` becomes
\* text; the content of a math_inline token holds no newline.
C16_InlineMathOneLine ==
    pc = "wrap" =>
        /\ \A t \in inlineTokens(state.tokens) :
              /\ \A p \in 0..(Len(t.content) - 1) :
                    (t.content[p + 1] = "$" /\ unclosedAt(t.content, p))
                        => declinesAt(t.content, p)
              /\ (t.content # <<>> /\ t.content[1] = "$" /\ unclosedAt(t.content, 0))
                    => t.children[1] = Child("text", <<"$">>)
        /\ \A c \in childrenOf(state.tokens, "math_inline") :
              ~Contains(c.content, <<"\n">>)

C16_Witness ==
    /\ pc = "wrap"
    /\ mid = <<"$", "a", "\n", "a", "$">>
    /\ childrenOf(state.tokens, "math_inline") = {}
    /\ html = <<"<", "p", ">", "$", "a", "\n", "a", "$", "<", "/", "p", ">", "\n">>

---------------------------------------------------------------------------
(* markdownToHtml on formulas of one and of several lines                  *)

MaxFormulaLines == 3

FormulaLines ==
    {<<"$", "$">>,
     <<"$", "$", "a">>,
     <<"a">>,
     <<" ", "a">>,
     <<"a", "$", "$">>,
     <<"$", "$", " ", "a", " ", "$", "$">>,
     <<"$", "a", " ", "$">>}

InitFormula ==
    \E d \in Documents(FormulaLines, MaxFormulaLines) :
        Called("markdownToHtml", Str(d), <<>>)

SpecFormula == InitFormula /\ [][NextMarkdown]_vars

\* the text of src between the delimiter that opens it and the next one, trimmed
betweenDelimiters(src, delimiter) ==
    Trim(Slice(src, Len(delimiter), IndexOf(src, delimiter, Len(delimiter))))

\* C17 (as claimed): the content of a math_block token that opens the
\* document, and of a math_inline token that opens its paragraph, is the
\* text between the opening delimiter and the closing one, trimmed, with
\* its inner lines and their indentation as they are in the source.
C17_MathContentExact ==
    pc = "wrap" =>
        /\ (state.tokens # <<>> /\ state.tokens[1].type = "math_block")
              => state.tokens[1].content = betweenDelimiters(mid, <<"$", "$">>)
        /\ \A t \in inlineTokens(state.tokens) :
              (t.children # <<>> /\ t.children[1].type = "math_inline")
                => t.children[1].content = betweenDelimiters(t.content, <<"$">>)

\* the same on formulas whose inner lines are not indented
C17_Unindented ==
    (pc = "wrap" /\ ~Contains(mid, <<"\n", " ">>)) => C17_MathContentExact

---------------------------------------------------------------------------
(* markdownToHtml on code: indented, fenced and inline                     *)

MaxCodeSegs == 2

CodeSegs == {<<"<">>, <<">">>, <<"&">>, <<"\"">>, <<"'">>, <<"a">>, <<"&", "lt", ";">>}

\* the documents that hold the text c as code
CodeDocuments(c) ==
    {<<" ", " ", " ", " ">> \o c,
     <<"~", "~", "~", "\n">> \o c \o <<"\n", "~", "~", "~">>,
     <<"~", "~", "~", "\n">> \o c,
     <<Backtick, Backtick, Backtick, "js", "\n">> \o c
        \o <<"\n", Backtick, Backtick, Backtick, "\n">>,
     <<"a", " ", Backtick>> \o c \o <<Backtick>>}

InitCode ==
    \E c \in SegStrings(CodeSegs, MaxCodeSegs) \cup {<<>>} :
        \E d \in CodeDocuments(c) : Called("markdownToHtml", Str(d), <<>>)

SpecCode == InitCode /\ [][NextMarkdown]_vars

\* the contents of the code tokens of the document
codeContents(toks) ==
    {toks[k].content : k \in {j \in 1..Len(toks) : toks[j].type \in {"code_block", "fence"}}}
    \cup {c.content : c \in childrenOf(toks, "code_inline")}

\* the text of the first code element of h
codeText(h) ==
    With(IndexOf(h, <<">">>, IndexOf(h, <<"<", "code">>, 0)) + 1, LAMBDA from :
      Slice(h, from, IndexOf(h, <<"<", "/", "code", ">">>, from)))

\* no raw <, >, ", ' in t, and every & of t opens a numeric reference
numericOnly(t) ==
    \A k \in 1..Len(t) :
        /\ t[k] \notin {"<", ">", "\"", "'"}
        /\ t[k] = "&" => (k + 2 <= Len(t) /\ t[k + 1] \in numericRefs /\ t[k + 2] = ";")

\* C18: in the rendered text of a code block, a fenced code block or an
\* inline code span the characters <, >, &, " and ' are written as numeric
\* character references only, and decoding that text gives back the
\* content of the token.
C18_CodeEncoded ==
    (pc = "wrap" /\ codeContents(state.tokens) # {}) =>
        /\ numericOnly(codeText(html))
        /\ codeContents(state.tokens) = {heDecode(codeText(html))}

C18_Witness ==
    /\ pc = "wrap"
    /\ mid = <<"a", " ", Backtick, "<", "&", "lt", ";", Backtick>>
    /\ codeContents(state.tokens) = {<<"<", "&", "lt", ";">>}
    /\ html = <<"<", "p", ">", "a", " ", "<", "code", ">", "&", "#x3C", ";",
                "&", "#x26", ";", "lt", ";", "<", "/", "code", ">", "<", "/", "p", ">", "\n">>

---------------------------------------------------------------------------
(* markdownToHtml: the image pre-pass on documents of text and images      *)

MaxImageParts == 2

TextPart(text) == [kind |-> "text", text |-> text]

\* an image reference; hasTitle tells whether a title was given
ImagePart(alt, target, hasTitle, title) ==
    [kind |-> "image", alt |-> alt, target |-> target, hasTitle |-> hasTitle,
     title |-> title]

ImageTargets ==
    {<<"file", ":", "/", "/", "/", "p">>,
     <<"file", ":", "/", "/", "/", "p", "(", "1", ")">>,
     <<"http", ":", "/", "/", "p">>}

ImageParts ==
    {TextPart(<<"a">>), TextPart(<<" ">>)}
    \cup {ImagePart(alt, target, hasTitle, <<"t">>) :
             alt \in {<<>>, <<"a">>}, target \in ImageTargets, hasTitle \in BOOLEAN}

\* the Markdown text of a part
partSource(part) ==
    IF part.kind = "text" THEN part.text
    ELSE <<"!", "[">> \o part.alt \o <<"]", "(">> \o part.target
         \o (IF part.hasTitle THEN <<" ", "\"">> \o part.title \o <<"\"">> ELSE <<>>)
         \o <<")">>

\* what the pre-pass is to make of a part
partRewritten(part) ==
    IF part.kind = "image" /\ StartsWithAt(part.target, <<"file", ":", "/", "/">>, 0)
    THEN <<"<", "img", " ", "src", "=", "\"">> \o part.target
         \o <<"\"", " ", "alt", "=", "\"">> \o part.alt \o <<"\"">>
         \o (IF part.hasTitle
             THEN <<" ", "title", "=", "\"">> \o part.title \o <<"\"">> ELSE <<>>)
         \o <<" ", "/", ">">>
    ELSE partSource(part)

\* the documents of 1..n parts
RECURSIVE PartDocuments(_)
PartDocuments(n) ==
    IF n = 0 THEN {<<>>}
    ELSE PartDocuments(n - 1)
         \cup {Append(d, part) : d \in PartDocuments(n - 1), part \in ImageParts}

InitImages ==
    \E d \in PartDocuments(MaxImageParts) \ {<<>>} :
        Called("markdownToHtml",
               Str(Flatten([k \in 1..Len(d) |-> partSource(d[k])])), <<>>)

SpecImages == InitImages /\ [][NextMarkdown]_vars

\* C19 (as claimed): the pre-pass rewrites each image reference whose
\* target begins with file:// into an img tag that holds the target
\* character for character, the alt text and the title when one was given,
\* and hands every other image reference and all other text on unchanged.
C19_ImagePrepassExact ==
    pc = "render" =>
        \A d \in PartDocuments(MaxImageParts) :
            arg.val = Flatten([k \in 1..Len(d) |-> partSource(d[k])])
                => mid = Flatten([k \in 1..Len(d) |-> partRewritten(d[k])])

\* the same on documents whose targets hold no parenthesis
C19_NoParenthesis ==
    (pc = "render" /\ ~Contains(arg.val, <<"(", "1", ")">>)) => C19_ImagePrepassExact

---------------------------------------------------------------------------
(* md.use(taskListPlugin, options) with each value of the flag `label`     *)

\* the options object without a key
NoOptions == [key \in {} |-> TRUE]

LabelOptions == {NoOptions, [label |-> TRUE], [label |-> FALSE]}

InitLabel ==
    \E o \in LabelOptions :
        \E d \in Documents(ItemLines, MaxItemLines) :
            CalledWith("markdownToHtml", Str(d), <<>>, o)

SpecLabel == InitLabel /\ [][NextMarkdown]_vars

\* the list items that the rule gave a checked state
checkedItems(toks) ==
    {k \in 1..Len(toks) :
        toks[k].type = "list_item_open" /\ hasAttribute(toks[k].attrs, "data-checked")}

\* the item carries data-checked="true"
isCheckedItem(item) ==
    \E k \in 1..Len(item.attrs) :
        item.attrs[k] = [n |-> "data-checked", v |-> <<"true">>]

\* the checkbox of an item
checkboxOf(item) ==
    <<"<", "input", " ", "type", "=", "\"", "checkbox", "\"">>
    \o (IF isCheckedItem(item)
        THEN <<" ", "checked">> ELSE <<>>)
    \o <<" ", "disabled", ">">>

\* the text of an item after its marker
afterMarker(content) == TrimStart(SliceFrom(content, 3))

\* C20: without the flag `label`, which is the default, the inline token of
\* a task item holds two children, the checkbox as html_inline and a text
\* of a space and the item's content; with the flag it holds one
\* html_inline child, the checkbox and the content inside a label element.
\* The checkbox has `checked` exactly for a checked item and is disabled.
C20_LabelFlag ==
    pc = "wrap" =>
        \A k \in checkedItems(state.tokens) :
            With(afterMarker(beforePass[k + 2].content), LAMBDA content :
              state.tokens[k + 2].children =
                IF "label" \in DOMAIN options /\ options.label
                THEN <<Child("html_inline",
                         <<"<", "label", ">">> \o checkboxOf(state.tokens[k]) \o <<" ">>
                         \o content \o <<"<", "/", "label", ">">>)>>
                ELSE <<Child("html_inline", checkboxOf(state.tokens[k])),
                       Child("text", <<" ">> \o content)>>)

\* the items of C20 have the checked state of their marker
C20_CheckedIffMarked ==
    pc = "wrap" =>
        \A k \in checkedItems(state.tokens) :
            isCheckedItem(state.tokens[k]) <=> beforePass[k + 2].content[2] = "x"

C20_Witness ==
    /\ pc = "wrap"
    /\ options = NoOptions
    /\ mid = <<"-", " ", "[", "x", "]", " ", "b">>
    /\ html = <<"<", "ul", " ", "data-type", "=", "\"", "taskList", "\"", " ",
                "class", "=", "\"", "task-list", "\"", ">", "\n",
                "<", "li", " ", "data-type", "=", "\"", "taskItem", "\"", " ",
                "class", "=", "\"", "task-list-item", "\"", " ",
                "data-checked", "=", "\"", "true", "\"", ">",
                "<", "input", " ", "type", "=", "\"", "checkbox", "\"", " ",
                "checked", " ", "disabled", ">", " ", "b",
                "<", "/", "li", ">", "\n", "<", "/", "ul", ">", "\n">>

---------------------------------------------------------------------------
(* htmlToMarkdown on a task item with and without a checkbox element       *)

ItemContents == {<<"a">>, <<"a", " ", "b">>}

\* the values of data-checked, "none" for an item without the attribute
CheckedValues == {"none", "true", "false"}

\* the checkbox element of an item: absent, unchecked, checked
BoxForms == {"none", "unchecked", "checked"}

taskItemHtml(dataChecked, box, text) ==
    <<"<", "ul", " ", "data-type", "=", "\"", "taskList", "\"", ">",
      "<", "li", " ", "data-type", "=", "\"", "taskItem", "\"">>
    \o (IF dataChecked = "none" THEN <<>>
        ELSE <<" ", "data-checked", "=", "\"", dataChecked, "\"">>)
    \o <<">">>
    \o (IF box = "none" THEN <<>>
        ELSE <<"<", "input", " ", "type", "=", "\"", "checkbox", "\"">>
             \o (IF box = "checked" THEN <<" ", "checked">> ELSE <<>>)
             \o <<" ", "disabled", ">", " ">>)
    \o text
    \o <<"<", "/", "li", ">", "<", "/", "ul", ">">>

InitTaskItem ==
    \E dataChecked \in CheckedValues, box \in BoxForms, text \in ItemContents :
        Called("htmlToMarkdown", Str(taskItemHtml(dataChecked, box, text)), <<>>)

SpecTaskItem == InitTaskItem /\ [][NextHtml]_vars

\* the checked state of an item as claimed: the checkbox's when there is a
\* checkbox, the attribute's otherwise
claimedChecked(dataChecked, box) ==
    IF box # "none" THEN box = "checked" ELSE dataChecked = "true"

\* C21 (as claimed): a task item comes back as `- [x] ` and its trimmed
\* text when its checked state is true and as `- [ ] ` and its trimmed text
\* otherwise; the checked state is the checkbox's when the item holds a
\* checkbox, and the value of data-checked only when it holds none.
C21_TaskItemToMarkdown ==
    pc = "done" =>
        \A dataChecked \in CheckedValues, box \in BoxForms, text \in ItemContents :
            arg.val = taskItemHtml(dataChecked, box, text)
                => out = <<"-", " ", "[",
                           IF claimedChecked(dataChecked, box) THEN "x" ELSE " ",
                           "]", " ">> \o text

\* the same on items whose attribute and checkbox do not disagree
C21_Agreeing ==
    (pc = "done" /\ ~(Contains(arg.val, <<"data-checked", "=", "\"", "true">>)
                      /\ Contains(arg.val, <<"\"", " ", "disabled">>)))
        => C21_TaskItemToMarkdown

\* C21 (amended): a task item comes back as `- [x] ` and its trimmed text
\* when its checkbox is checked or its data-checked is "true", whether or
\* not it holds a checkbox, and as `- [ ] ` and its trimmed text otherwise.
C21_CheckboxOrAttribute ==
    pc = "done" =>
        \A dataChecked \in CheckedValues, box \in BoxForms, text \in ItemContents :
            arg.val = taskItemHtml(dataChecked, box, text)
                => out = <<"-", " ", "[",
                           IF box = "checked" \/ dataChecked = "true" THEN "x" ELSE " ",
                           "]", " ">> \o text

C21_Witness ==
    /\ pc = "done"
    /\ arg.val = taskItemHtml("true", "unchecked", <<"a", " ", "b">>)
    /\ out = <<"-", " ", "[", "x", "]", " ", "a", " ", "b">>

---------------------------------------------------------------------------
(* htmlToMarkdown on tables with and without a header section              *)

MaxHeaderCells == 2

\* a header cell: its tag's attributes and its text
HeaderCells ==
    {[attrs |-> <<>>, text |-> <<"a">>],
     [attrs |-> <<>>, text |-> <<"a", "|", "b">>],
     [attrs |-> <<" ", "colspan", "=", "\"", "2", "\"">>, text |-> <<"a">>]}

\* the rows of 1..n header cells
RECURSIVE HeaderRows(_)
HeaderRows(n) ==
    IF n = 0 THEN {<<>>}
    ELSE HeaderRows(n - 1)
         \cup {Append(r, c) : r \in HeaderRows(n - 1), c \in HeaderCells}

cellHtml(tag, cell) ==
    <<"<", tag>> \o cell.attrs \o <<">">> \o cell.text \o <<"<", "/", tag, ">">>

rowHtml(tag, row) ==
    <<"<", "tr", ">">> \o Flatten([k \in 1..Len(row) |-> cellHtml(tag, row[k])])
    \o <<"<", "/", "tr", ">">>

\* a table whose first row is `row`, inside <thead> or not, with or without
\* a body row of one cell
HeaderTable(row, inHead, withBody) ==
    <<"<", "table", ">">>
    \o (IF inHead
        THEN <<"<", "thead", ">">> \o rowHtml("th", row) \o <<"<", "/", "thead", ">">>
        ELSE rowHtml("td", row))
    \o (IF withBody THEN rowHtml("td", <<[attrs |-> <<>>, text |-> <<"c">>]>>) ELSE <<>>)
    \o <<"<", "/", "table", ">">>

InitHeader ==
    \E row \in HeaderRows(MaxHeaderCells) \ {<<>>}, inHead \in BOOLEAN, withBody \in BOOLEAN :
        Called("htmlToMarkdown", Str(HeaderTable(row, inHead, withBody)), <<>>)

SpecHeader == InitHeader /\ [][NextHtml]_vars

\* the number of columns of a table line: its pipes that no backslash
\* escapes, less one
columnCount(line) ==
    Cardinality({k \in 1..Len(line) :
                   line[k] = "|" /\ (k = 1 \/ line[k - 1] # "\\")}) - 1

\* the line is a row of `---` cells
isSeparatorRow(line) ==
    \E n \in 1..Len(line) :
        line \in {<<"|">> \o Repeat(<<" ", "-", "-", "-", " ", "|">>, n),
                  <<"|", " ", "-", "-", "-", " ", "|">>
                  \o Repeat(<<" ", "-", "-", "-", " ", "|">>, n - 1)}

\* C22 (as claimed): a table that htmlToMarkdown renders has one separator
\* row, its second line, made of `---` cells only and of as many columns as
\* its first line.
C22_OneSeparatorRow ==
    (pc = "done" /\ out # <<>>) =>
        With(Split(out, "\n"), LAMBDA lines :
          /\ Len(lines) >= 2
          /\ isSeparatorRow(lines[2])
          /\ columnCount(lines[2]) = columnCount(lines[1])
          /\ Cardinality({k \in 1..Len(lines) : isSeparatorRow(lines[k])}) = 1)

\* the same on tables whose header cells hold no pipe and span one column
C22_PlainCells ==
    (pc = "done" /\ ~Contains(arg.val, <<"|">>) /\ ~Contains(arg.val, <<"colspan">>))
        => C22_OneSeparatorRow

---------------------------------------------------------------------------
(* htmlToMarkdown on a table of one cell                                   *)

MaxCellTextSegs == 3

\* the last segment spells, in HTML, the text `&#xA;`
CellTextSegs ==
    {<<"a">>, <<" ">>, <<"\n">>, <<"|">>, <<"\\">>, <<"<", "br", ">">>,
     <<"&", "amp", ";", "#xA", ";">>}

OneCellTable(text) ==
    <<"<", "table", ">", "<", "tr", ">", "<", "td", ">">> \o text
    \o <<"<", "/", "td", ">", "<", "/", "tr", ">", "<", "/", "table", ">">>

InitCell ==
    \E text \in SegStrings(CellTextSegs, MaxCellTextSegs) :
        Called("htmlToMarkdown", Str(OneCellTable(text)), <<>>)

SpecCell == InitCell /\ [][NextHtml]_vars

\* the content of the first cell of a table line, between `| ` and ` |`
firstCell(line) == Slice(line, 2, Len(line) - 2)

\* the cell is one line, its whitespace single spaces, its pipes escaped
cleanCell(cell) ==
    /\ \A k \in 1..Len(cell) : cell[k] \notin {"\n", "\r", "\t", "\f"}
    /\ ~Contains(TrimEnd(cell), <<" ", " ">>)
    /\ \A k \in 1..Len(cell) : cell[k] = "|" => (k > 1 /\ cell[k - 1] = "\\")
    /\ StrLen(cell) >= 3

\* C23 (as claimed): the content of a cell without a math container is rendered on one
\* line, without newline or carriage return, every run of whitespace in
\* its text one space, every pipe after a backslash, at least three
\* characters wide; a cell of whitespace only is three spaces.
C23_CellIsOneLine ==
    (pc = "done" /\ out # <<>>) =>
        With(Split(out, "\n"), LAMBDA lines :
          /\ Len(lines) = 2
          /\ SubSeq(lines[1], 1, 2) = <<"|", " ">>
          /\ SubSeq(lines[1], Len(lines[1]) - 1, Len(lines[1])) = <<" ", "|">>
          /\ cleanCell(firstCell(lines[1]))
          /\ Trim(firstCell(lines[1])) = <<>> => firstCell(lines[1]) = <<" ", " ", " ">>)

\* the same on cells whose text spells no character reference
C23_NoReference ==
    (pc = "done" /\ ~Contains(arg.val, <<"&">>)) => C23_CellIsOneLine

---------------------------------------------------------------------------
(* htmlToMarkdown on sibling math blocks                                   *)

MaxBlocks == 3

\* a block: a block-math container, or a paragraph of one inline-math span
MathBlocks ==
    {[type |-> t, latex |-> l] : t \in {"block-math", "inline-math"},
                                l \in {<<"a">>, <<"b">>}}

RECURSIVE BlockSequences(_)
BlockSequences(n) ==
    IF n = 0 THEN {<<>>}
    ELSE BlockSequences(n - 1)
         \cup {Append(q, b) : q \in BlockSequences(n - 1), b \in MathBlocks}

blockHtml(block) ==
    IF block.type = "block-math"
    THEN <<"<", "div", " ", "data-latex", "=", "\"">> \o block.latex
         \o <<"\"", " ", "data-type", "=", "\"", "block-math", "\"", ">",
              "<", "/", "div", ">">>
    ELSE <<"<", "p", ">", "<", "span", " ", "data-latex", "=", "\"">> \o block.latex
         \o <<"\"", " ", "data-type", "=", "\"", "inline-math", "\"", ">",
              "<", "/", "span", ">", "<", "/", "p", ">">>

\* the Markdown form of a block
blockForm(block) ==
    IF block.type = "block-math" THEN <<"$", "$">> \o block.latex \o <<"$", "$">>
    ELSE <<"$">> \o block.latex \o <<"$">>

InitSiblings ==
    \E q \in BlockSequences(MaxBlocks) \ {<<>>} :
        Called("htmlToMarkdown", Str(Flatten([k \in 1..Len(q) |-> blockHtml(q[k])])), <<>>)

SpecSiblings == InitSiblings /\ [][NextHtml]_vars

\* the forms of the blocks with one blank line between two of them
formsJoined(q) ==
    Flatten([k \in 1..Len(q) |->
        (IF k > 1 THEN <<"\n", "\n">> ELSE <<>>) \o blockForm(q[k])])

\* C24 (as claimed): sibling blocks, each a block-math container or a
\* paragraph of one inline-math span, come back as their forms $$L$$ and
\* $L$ in document order, one blank line between two consecutive blocks,
\* and no paragraph around a lone inline formula.
C24_SiblingMathBlocks ==
    pc = "done" =>
        \A q \in BlockSequences(MaxBlocks) :
            arg.val = Flatten([k \in 1..Len(q) |-> blockHtml(q[k])])
                => out = formsJoined(q)

\* the same on sequences in which a paragraph is the last block or the
\* only one
C24_ParagraphLast ==
    (pc = "done" /\ ~Contains(arg.val, <<"<", "/", "p", ">", "<">>))
        => C24_SiblingMathBlocks

---------------------------------------------------------------------------
(* escapeCustomTags: what has been emitted when the cursor is at currentPos *)

\* t with every `&lt;` and `&gt;` put back to `<` and `>`
restoreTags(t) ==
    Flatten([k \in 1..Len(t) |->
        IF t[k] = "&" /\ k + 2 <= Len(t) /\ t[k + 1] \in {"lt", "gt"} /\ t[k + 2] = ";"
        THEN <<IF t[k + 1] = "lt" THEN "<" ELSE ">">>
        ELSE IF k > 1 /\ k < Len(t) /\ t[k - 1] = "&" /\ t[k] \in {"lt", "gt"}
                /\ t[k + 1] = ";"
        THEN <<>>
        ELSE IF k > 2 /\ t[k - 2] = "&" /\ t[k - 1] \in {"lt", "gt"} /\ t[k] = ";"
        THEN <<>>
        ELSE <<t[k]>>])

\* what the handlers have emitted is the input up to the cursor
emittedOnce ==
    /\ pc = "guard" => restoreTags(result) = Slice(html, 0, currentPos)
    /\ (fn = "escapeCustomTags" /\ pc = "done") => restoreTags(out) = arg.val

\* C25 (as claimed): on every input and every sequence of open and close
\* events escapeCustomTags emits each character of the input once and in
\* order: the cursor currentPos never goes back, what has been emitted is
\* the input up to the cursor, and the output is the input with some `<`
\* and `>` replaced by `&lt;` and `&gt;`.
C25_EmittedOnceInOrder ==
    /\ []emittedOnce
    /\ [][currentPos' >= currentPos]_vars

\* the cursor alone
C25_CursorNeverGoesBack == [][currentPos' >= currentPos]_vars

---------------------------------------------------------------------------
(* the task-list pass on nested lists                                      *)

\* the bullet_list_open of the list that directly encloses token j, 0 when
\* token j lies in no bullet list
enclosingList(toks, j) ==
    With({k \in 1..(j - 1) : toks[k].type = "bullet_list_open" /\ ownClose(toks, k) > j},
         LAMBDA opens : IF opens = {} THEN 0 ELSE MaxOf(opens))

\* the list that directly encloses token j carries data-type="taskList"
inMarkedList(toks, j) ==
    With(enclosingList(toks, j), LAMBDA k :
      k # 0 /\ getAttribute(toks[k].attrs, "data-type") = <<"taskList">>)

\* inside_task_list when the loop of L116 reaches token j
flagAt(toks, j, label) ==
    Iterate(LAMBDA s : taskListNext(s), LAMBDA s : s.i >= j, j,
            [i |-> 1, tokens |-> toks, inside |-> FALSE, label |-> label]).inside

\* C26 (as claimed): with nested lists a list_item_open carries
\* data-type="taskItem" only if the list that directly encloses it carries
\* data-type="taskList", and inside_task_list is true at a token exactly
\* when the token lies directly in a marked list.
C26_FlagFollowsNesting ==
    pc = "wrap" =>
        \A j \in 1..Len(state.tokens) :
            /\ (/\ state.tokens[j].type = "list_item_open"
                /\ getAttribute(state.tokens[j].attrs, "data-type") = <<"taskItem">>)
                  => inMarkedList(state.tokens, j)
            /\ state.tokens[j].type \notin {"bullet_list_open", "bullet_list_close"}
                  => (flagAt(beforePass, j, labelOf(options))
                        <=> inMarkedList(state.tokens, j))

\* the same on lists of one level
C26_FlatLists ==
    (pc = "wrap" /\ ~Contains(mid, <<" ", " ", "-">>)) => C26_FlagFollowsNesting

---------------------------------------------------------------------------
(* the task-list pass on an item that holds further blocks                 *)

MaxNestedLines == 4

NestedLines ==
    {<<"-", " ", "[", "x", "]", " ", "a">>,
     <<" ", " ", "1", ".", " ", "b">>,
     <<" ", " ", "-", " ", "b">>,
     <<" ", " ", "[", " ", "]", " ", "c">>,
     <<>>}

InitNested ==
    \E d \in Documents(NestedLines, MaxNestedLines) \ {<<>>} :
        Called("markdownToHtml", Str(d), <<>>)

SpecNested == InitNested /\ [][NextMarkdown]_vars

\* the list_item_open of the item that directly encloses token j, 0 when
\* token j lies in no item
enclosingItem(toks, j) ==
    With({k \in 1..(j - 1) :
            /\ toks[k].type = "list_item_open"
            /\ \A m \in (k + 1)..j : levelAt(toks, m) > levelAt(toks, k)},
         LAMBDA opens : IF opens = {} THEN 0 ELSE MaxOf(opens))

\* the inline tokens the pass rewrote
rewrittenInlines ==
    {j \in 1..Len(state.tokens) :
        beforePass[j].type = "inline" /\ state.tokens[j] # beforePass[j]}

\* C27 (as claimed): data-checked is written to the list_item_open of the
\* item that directly encloses the rewritten inline token, it is "true"
\* exactly when that token's marker is checked, and no other list_item_open
\* receives it.
C27_CheckedOnOwnItem ==
    pc = "wrap" =>
        /\ \A j \in rewrittenInlines :
              With(enclosingItem(state.tokens, j), LAMBDA k :
                /\ k # 0
                /\ getAttribute(state.tokens[k].attrs, "data-checked")
                     = (IF taskMatch(beforePass[j].content).check = "x"
                        THEN <<"true">> ELSE <<"false">>))
        /\ \A k \in 1..Len(state.tokens) :
              (/\ state.tokens[k].type = "list_item_open"
               /\ hasAttribute(state.tokens[k].attrs, "data-checked"))
                 => \E j \in rewrittenInlines : enclosingItem(state.tokens, j) = k

\* the second half alone: only an item that encloses a rewritten token
\* receives data-checked
C27_OnlyEnclosingItems ==
    pc = "wrap" =>
        \A k \in 1..Len(state.tokens) :
            (/\ state.tokens[k].type = "list_item_open"
             /\ hasAttribute(state.tokens[k].attrs, "data-checked"))
               => \E j \in rewrittenInlines : enclosingItem(state.tokens, j) = k

\* the same on items that hold one paragraph and no ordered list
C27_OneParagraphItems ==
    (/\ pc = "wrap"
     /\ ~Contains(mid, <<"1", ".">>)
     /\ ~Contains(mid, <<" ", " ", "[">>)) => C27_CheckedOnOwnItem

---------------------------------------------------------------------------
(* the task-list pass on an item of several lines                          *)

\* C28 (as claimed): the content the pass leaves in a rewritten inline
\* token is all of the item's text after the marker and the spaces that
\* follow it, the further lines of a multi-line item included.
C28_KeepsTextAfterMarker ==
    pc = "wrap" =>
        \A j \in rewrittenInlines :
            state.tokens[j].content = afterMarker(beforePass[j].content)

\* the same on items of one line
C28_OneLineItems ==
    pc = "wrap" =>
        \A j \in rewrittenInlines :
            ~Contains(beforePass[j].content, <<"\n">>)
               => state.tokens[j].content = afterMarker(beforePass[j].content)

---------------------------------------------------------------------------
(* the math_block rule: the text of the lines it consumes                  *)

\* the characters of s that are not whitespace
isInk(c) == c \notin White
nonWhite(s) == SelectSeq(s, isInk)

\* the lines the accepted rule consumes, from line 1 to state.line - 1
consumedLines(lines, r) == joinLines([k \in 1..Min(r.next - 1, Len(lines)) |-> lines[k]])

\* C29 (as claimed): when the math_block rule accepts at the first line,
\* the non-whitespace characters of the lines it consumes are the opening
\* `$$`, the token's content and the closing `$$`: no text of these lines,
\* text after the closing delimiter included, is left out.
C29_NoTextLost ==
    (pc = "wrap" /\ state.tokens # <<>> /\ state.tokens[1].type = "math_block") =>
        With(mathBlockRule(srcLines(mid), 1), LAMBDA r :
          /\ r.ok
          /\ nonWhite(consumedLines(srcLines(mid), r))
               = <<"$", "$">> \o nonWhite(state.tokens[1].content) \o <<"$", "$">>)

\* the same when the closing `$$` is the last text of its line
C29_ClosingEndsLine ==
    (/\ pc = "wrap" /\ state.tokens # <<>> /\ state.tokens[1].type = "math_block"
     /\ With(mathBlockRule(srcLines(mid), 1), LAMBDA r :
          With(nonWhite(consumedLines(srcLines(mid), r)), LAMBDA ink :
            /\ Len(ink) >= 4
            /\ SubSeq(ink, Len(ink) - 1, Len(ink)) = <<"$", "$">>
            /\ ~Contains(SubSeq(ink, 3, Len(ink) - 2), <<"$", "$">>))))
       => C29_NoTextLost

---------------------------------------------------------------------------
(* the math_inline rule: the position it leaves                            *)

\* the positions of src that hold a `$`, where the rule gets past L310
dollarsOf(src) == {p \in 0..(Len(src) - 1) : src[p + 1] = "$"}

====
